---- MODULE Spec2Model ----
(***************************************************************************)
(* Verification model of the bus tracker scripts: the LoRa receivers       *)
(* (pi3_lora_receiver, pi3_sx127x_receiver, simple_lora_receiver,          *)
(* pico_receiver_example), the GPS transmitters (gps_lora_transmitter,     *)
(* simple_lora_transmitter) and the GPS display script NEW.py.             *)
(*                                                                         *)
(* Text is a sequence of symbols.  A symbol is one character ("1", ".",    *)
(* ",", "{", a space, a double quote ...) or a run of letters written as   *)
(* one string ("BUS", "latitude"): a run of letters never takes part in a  *)
(* number, a separator or a brace, so the parsers treat it as one opaque   *)
(* unit.  Numbers are fixed point: a Python float or int x is the integer  *)
(* x * Scale.                                                              *)
(*                                                                         *)
(* A definition that computes in steps passes each intermediate value on   *)
(* as an operator argument (Name_step) instead of naming it in a LET.      *)
(***************************************************************************)
EXTENDS Integers, Sequences, FiniteSets, TLC

\* ------------------------------------------------------------------ bounds
\* digits kept after the decimal point by the fixed-point numbers
FracDigits == 3
Scale == 10 ^ FracDigits

\* ------------------------------------------------------------- text helpers
Digits == {"0", "1", "2", "3", "4", "5", "6", "7", "8", "9"}
IsDigit(c) == c \in Digits
DigitVal(c) ==
    CASE c = "0" -> 0 [] c = "1" -> 1 [] c = "2" -> 2 [] c = "3" -> 3
      [] c = "4" -> 4 [] c = "5" -> 5 [] c = "6" -> 6 [] c = "7" -> 7
      [] c = "8" -> 8 [] c = "9" -> 9
\* str.strip() takes off blanks, carriage returns and line feeds
IsSpace(c) == c \in {" ", "\r", "\n"}
Q == "\""

AllDigits(s) == \A i \in 1..Len(s) : IsDigit(s[i])

RECURSIVE IntOf(_)
\* value of a run of decimal digits (0 for the empty run)
IntOf(s) ==
    IF s = <<>> THEN 0
    ELSE IntOf(SubSeq(s, 1, Len(s) - 1)) * 10 + DigitVal(s[Len(s)])

\* value, in 1/Scale, of the digits after a decimal point
FracOf(s) ==
    IF Len(s) > FracDigits THEN IntOf(SubSeq(s, 1, FracDigits))
    ELSE IntOf(s) * (10 ^ (FracDigits - Len(s)))

\* str.find(c): index of the first c in s, 0 when there is none
Find(s, c) ==
    IF \E i \in 1..Len(s) : s[i] = c
    THEN CHOOSE i \in 1..Len(s) : s[i] = c /\ \A j \in 1..(i - 1) : s[j] # c
    ELSE 0

\* str.rfind(c): index of the last c in s, 0 when there is none
RFind(s, c) ==
    IF \E i \in 1..Len(s) : s[i] = c
    THEN CHOOSE i \in 1..Len(s) : s[i] = c /\ \A j \in (i + 1)..Len(s) : s[j] # c
    ELSE 0

Contains(s, c) == \E i \in 1..Len(s) : s[i] = c
Count(s, c) == Cardinality({i \in 1..Len(s) : s[i] = c})

RECURSIVE LStrip(_)
LStrip(s) == IF s # <<>> /\ IsSpace(Head(s)) THEN LStrip(Tail(s)) ELSE s
RECURSIVE RStrip(_)
RStrip(s) ==
    IF s # <<>> /\ IsSpace(s[Len(s)]) THEN RStrip(SubSeq(s, 1, Len(s) - 1)) ELSE s
\* str.strip()
Strip(s) == RStrip(LStrip(s))

RECURSIVE Split(_, _)
\* str.split(sep): the parts of s between the occurrences of sep
Split_at(s, sep, i) ==
    IF i = 0 THEN <<s>>
    ELSE <<SubSeq(s, 1, i - 1)>> \o Split(SubSeq(s, i + 1, Len(s)), sep)
Split(s, sep) == Split_at(s, sep, Find(s, sep))

\* first index >= i of s that holds no digit (Len(s) + 1 when there is none)
DigitsEnd(s, i) ==
    IF \E k \in i..Len(s) : ~IsDigit(s[k])
    THEN CHOOSE k \in i..Len(s) : ~IsDigit(s[k]) /\ \A j \in i..(k - 1) : IsDigit(s[j])
    ELSE Len(s) + 1

\* -------------------------------------------------------------- Python values
\* A value of a dict: a number (n, in 1/Scale), a string (s, its symbols) or a
\* formatted time (n, the second it names).
Num(n) == [ty |-> "num", n |-> n, s |-> <<>>]
NumI(i) == Num(i * Scale)
Str(s) == [ty |-> "str", n |-> 0, s |-> s]
\* clock ticks per second
TicksPerSec == 2
\* C7, mutant of strftime: a format that keeps the fraction of the second
strftime_ticks(t) == [ty |-> "time", n |-> t, s |-> <<>>]

\* strftime("%Y-%m-%dT%H:%M:%S") of the clock reading t (in ticks)
strftime(t) == [ty |-> "time", n |-> t \div TicksPerSec, s |-> <<>>]

\* Optional values: None is the empty sequence, a value v is <<v>>.
None == <<>>
Some(v) == <<v>>

\* float(text): [ok, v]; ok is FALSE where Python raises ValueError.
\* Exponents, "inf", "nan" and "_" do not occur in the symbols used here.
PyFloat_parts(neg, ip, fp) ==
    IF AllDigits(ip) /\ AllDigits(fp) /\ Len(ip) + Len(fp) > 0
    THEN [ok |-> TRUE,
          v |-> IF neg THEN 0 - (IntOf(ip) * Scale + FracOf(fp))
                ELSE IntOf(ip) * Scale + FracOf(fp)]
    ELSE [ok |-> FALSE, v |-> 0]
PyFloat_dot(neg, u, dot) ==
    PyFloat_parts(neg,
                  IF dot = 0 THEN u ELSE SubSeq(u, 1, dot - 1),
                  IF dot = 0 THEN <<>> ELSE SubSeq(u, dot + 1, Len(u)))
PyFloat_unsigned(neg, u) == PyFloat_dot(neg, u, Find(u, "."))
PyFloat_stripped(t) ==
    PyFloat_unsigned(t # <<>> /\ Head(t) = "-",
                     IF t # <<>> /\ Head(t) \in {"+", "-"} THEN Tail(t) ELSE t)
PyFloat(text) == PyFloat_stripped(Strip(text))

\* int(text): [ok, v]; ok is FALSE where Python raises ValueError.
PyInt_unsigned(neg, u) ==
    IF u # <<>> /\ AllDigits(u)
    THEN [ok |-> TRUE, v |-> IF neg THEN 0 - IntOf(u) * Scale ELSE IntOf(u) * Scale]
    ELSE [ok |-> FALSE, v |-> 0]
PyInt_stripped(t) ==
    PyInt_unsigned(t # <<>> /\ Head(t) = "-",
                   IF t # <<>> /\ Head(t) \in {"+", "-"} THEN Tail(t) ELSE t)
PyInt(text) == PyInt_stripped(Strip(text))

\* int(x) of a number: truncation toward zero
Trunc(n) == IF n >= 0 THEN (n \div Scale) * Scale ELSE 0 - (((0 - n) \div Scale) * Scale)

\* float(v) of a dict value
FloatOfValue(v) ==
    IF v.ty = "num" THEN [ok |-> TRUE, v |-> v.n]
    ELSE IF v.ty = "str" THEN PyFloat(v.s)
    ELSE [ok |-> FALSE, v |-> 0]

\* int(v) of a dict value
IntOfValue(v) ==
    IF v.ty = "num" THEN [ok |-> TRUE, v |-> Trunc(v.n)]
    ELSE IF v.ty = "str" THEN PyInt(v.s)
    ELSE [ok |-> FALSE, v |-> 0]

\* dict with d[k] = v added or replaced
Put(d, k, v) == [x \in (DOMAIN d) \cup {k} |-> IF x = k THEN v ELSE d[x]]
EmptyDict == <<>>
HasKey(d, k) == k \in DOMAIN d

\* ------------------------------------------------------------------- JSON
\* json.loads / ujson.loads of a text that starts with "{": a flat object whose
\* keys are strings and whose values are numbers or strings.  Nested objects,
\* arrays, true/false/null, exponents and escapes need symbols that the payloads
\* used here do not contain.
RECURSIVE Join(_)
\* the Python string of a symbol sequence
Join(s) == IF s = <<>> THEN "" ELSE Head(s) \o Join(Tail(s))

\* first index >= i of s that holds no whitespace (Len(s) + 1 when there is none)
SkipWs(s, i) ==
    IF \E k \in i..Len(s) : ~IsSpace(s[k])
    THEN CHOOSE k \in i..Len(s) : ~IsSpace(s[k]) /\ \A j \in i..(k - 1) : IsSpace(s[j])
    ELSE Len(s) + 1

JsonFail == [ok |-> FALSE, next |-> 0, val |-> Num(0), d |-> EmptyDict]
JsonOk(next, val, d) == [ok |-> TRUE, next |-> next, val |-> val, d |-> d]

\* a string that opens at s[i] = Q: its content runs to the next Q (at i + j)
JsonString_close(s, i, j) ==
    IF j = 0 THEN JsonFail
    ELSE JsonOk(i + j + 1, Str(SubSeq(s, i + 1, i + j - 1)), EmptyDict)
JsonString(s, i) == JsonString_close(s, i, Find(SubSeq(s, i + 1, Len(s)), Q))

\* a number at s[i]: -?(0|[1-9][0-9]*)(\.[0-9]+)?
JsonNumber_frac(s, neg, j, intEnd, hasFrac) ==
    IF hasFrac
    THEN JsonOk(DigitsEnd(s, intEnd + 1),
                Num((IF neg THEN 0 - 1 ELSE 1)
                    * (IntOf(SubSeq(s, j, intEnd - 1)) * Scale
                       + FracOf(SubSeq(s, intEnd + 1, DigitsEnd(s, intEnd + 1) - 1)))),
                EmptyDict)
    ELSE JsonOk(intEnd,
                Num((IF neg THEN 0 - 1 ELSE 1) * IntOf(SubSeq(s, j, intEnd - 1)) * Scale),
                EmptyDict)
JsonNumber_int(s, neg, j, intEnd) ==
    JsonNumber_frac(s, neg, j, intEnd,
                    intEnd + 1 <= Len(s) /\ s[intEnd] = "." /\ IsDigit(s[intEnd + 1]))
JsonNumber_digits(s, neg, j) ==
    IF j > Len(s) \/ ~IsDigit(s[j]) THEN JsonFail
    ELSE JsonNumber_int(s, neg, j, IF s[j] = "0" THEN j + 1 ELSE DigitsEnd(s, j))
JsonNumber(s, i) == JsonNumber_digits(s, s[i] = "-", IF s[i] = "-" THEN i + 1 ELSE i)

JsonValue(s, i) ==
    IF i > Len(s) THEN JsonFail
    ELSE IF s[i] = Q THEN JsonString(s, i)
    ELSE IF s[i] = "-" \/ IsDigit(s[i]) THEN JsonNumber(s, i)
    ELSE JsonFail

RECURSIVE JsonMembers(_, _, _)
\* after a member's value: "," and the next member, or the closing "}"
JsonMembers_next(s, i4, d2) ==
    IF i4 > Len(s) THEN JsonFail
    ELSE IF s[i4] = "," THEN JsonMembers(s, i4 + 1, d2)
    ELSE IF s[i4] = "}" THEN JsonOk(i4 + 1, Num(0), d2)
    ELSE JsonFail
JsonMembers_value(s, key, v, d) ==
    IF ~v.ok THEN JsonFail
    ELSE JsonMembers_next(s, SkipWs(s, v.next), Put(d, Join(key.val.s), v.val))
JsonMembers_colon(s, key, i2, d) ==
    IF i2 > Len(s) \/ s[i2] # ":" THEN JsonFail
    ELSE JsonMembers_value(s, key, JsonValue(s, SkipWs(s, i2 + 1)), d)
JsonMembers_key(s, key, d) ==
    IF ~key.ok THEN JsonFail
    ELSE JsonMembers_colon(s, key, SkipWs(s, key.next), d)
JsonMembers_at(s, i1, d) ==
    IF i1 > Len(s) \/ s[i1] # Q THEN JsonFail
    ELSE JsonMembers_key(s, JsonString(s, i1), d)
\* the members of an object from position i on, added to d; a repeated key
\* keeps its last value
JsonMembers(s, i, d) == JsonMembers_at(s, SkipWs(s, i), d)

JsonLoads_end(text, obj) ==
    IF obj.ok /\ SkipWs(text, obj.next) = Len(text) + 1 THEN obj ELSE JsonFail
JsonLoads_open(text, i0, i1) ==
    IF i0 > Len(text) \/ text[i0] # "{" THEN JsonFail
    ELSE JsonLoads_end(text,
                       IF i1 <= Len(text) /\ text[i1] = "}"
                       THEN JsonOk(i1 + 1, Num(0), EmptyDict)
                       ELSE JsonMembers(text, i0 + 1, EmptyDict))
JsonLoads_at(text, i0) == JsonLoads_open(text, i0, SkipWs(text, i0 + 1))
\* json.loads(text): [ok, d]; ok is FALSE where Python raises
JsonLoads(text) == JsonLoads_at(text, SkipWs(text, 1))

\* ------------------------------------------------------------ regex scan
\* end (exclusive) of the match of [-+]?\d*\.\d+ that starts at s[i], 0 when the
\* pattern does not match there; k is where the digits after the sign end
FloatMatchEnd_dot(s, k) ==
    IF k + 1 <= Len(s) /\ s[k] = "." /\ IsDigit(s[k + 1])
    THEN DigitsEnd(s, k + 1)
    ELSE 0
FloatMatchEnd(s, i) ==
    FloatMatchEnd_dot(s, DigitsEnd(s, IF s[i] \in {"-", "+"} THEN i + 1 ELSE i))

RECURSIVE FindFloats(_, _)
FindFloats_from(s, i, e) ==
    IF e = 0 THEN FindFloats(s, i + 1)
    ELSE <<SubSeq(s, i, e - 1)>> \o FindFloats(s, e)
\* re.findall(r'[-+]?\d*\.\d+', s) from position i on: the non-overlapping
\* matches, leftmost first
FindFloats(s, i) ==
    IF i > Len(s) THEN <<>> ELSE FindFloats_from(s, i, FloatMatchEnd(s, i))

\* the literals 'BUS001' and 'TEST001'
BUS001 == <<"BUS", "0", "0", "1">>
TEST001 == <<"TEST", "0", "0", "1">>

Ok(v) == [ok |-> TRUE, v |-> v]
Parsed(g, parsed) == [g |-> g, parsed |-> parsed]

\* ------------------------------------------- pi3_sx127x_receiver: the decoder
\* "Default structure" of LoRaReceiver.parse_gps_data
sx_default(t) ==
    [busId |-> Str(BUS001), latitude |-> Num(0), longitude |-> Num(0),
     signalStrength |-> NumI(85), timestamp |-> strftime(t)]

\* Attempt 1 (CSV), "Case: LAT,LON"; an assignment made before a ValueError
\* stays in gps_data
sx_csv_2(g, lat, lon) ==
    IF ~lat.ok THEN Parsed(g, FALSE)
    ELSE IF ~lon.ok THEN Parsed([g EXCEPT !.latitude = Num(lat.v)], FALSE)
    ELSE Parsed([g EXCEPT !.latitude = Num(lat.v), !.longitude = Num(lon.v)], TRUE)

\* C20, mutant of sx_csv_3: the two coordinate fields are taken the other way round
sx_csv_3_swapped(g, lat, lon, hasSig, sig) ==
    IF ~lat.ok THEN Parsed(g, FALSE)
    ELSE IF ~lon.ok THEN Parsed([g EXCEPT !.latitude = Num(lat.v)], FALSE)
    ELSE IF hasSig /\ ~sig.ok
    THEN Parsed([g EXCEPT !.latitude = Num(lat.v), !.longitude = Num(lon.v)], FALSE)
    ELSE Parsed([g EXCEPT !.latitude = Num(lon.v), !.longitude = Num(lat.v),
                          !.signalStrength = IF hasSig THEN Num(sig.v) ELSE @], TRUE)

\* Attempt 1 (CSV), "Case: BUSID,LAT,LON"; g already holds the busId
sx_csv_3(g, lat, lon, hasSig, sig) ==
    IF ~lat.ok THEN Parsed(g, FALSE)
    ELSE IF ~lon.ok THEN Parsed([g EXCEPT !.latitude = Num(lat.v)], FALSE)
    ELSE IF hasSig /\ ~sig.ok
    THEN Parsed([g EXCEPT !.latitude = Num(lat.v), !.longitude = Num(lon.v)], FALSE)
    ELSE Parsed([g EXCEPT !.latitude = Num(lat.v), !.longitude = Num(lon.v),
                          !.signalStrength = IF hasSig THEN Num(sig.v) ELSE @], TRUE)

sx_csv_parts(parts, g) ==
    IF Len(parts) = 2
    THEN sx_csv_2(g, PyFloat(parts[1]), PyFloat(parts[2]))
    ELSE sx_csv_3([g EXCEPT !.busId = IF parts[1] # <<>> THEN Str(Strip(parts[1]))
                                      ELSE Str(BUS001)],
                  PyFloat(parts[2]), PyFloat(parts[3]), Len(parts) > 3,
                  IF Len(parts) > 3 THEN PyInt(parts[4]) ELSE Ok(0))

\* Attempt 1 of LoRaReceiver.parse_gps_data, from the state st = [g, parsed]
sx_csv(ds, st) ==
    IF Contains(ds, ",") /\ ~Contains(ds, "{")
    THEN sx_csv_parts(Split(ds, ","), st.g)
    ELSE st

\* Attempt 2 (JSON): the assignments from the loaded dict, in the order of the
\* code; the bare except keeps what was assigned before the failure
sx_json_sig(g, sig) ==
    IF ~sig.ok THEN Parsed(g, FALSE)
    ELSE Parsed([g EXCEPT !.signalStrength = Num(sig.v)], TRUE)
sx_json_lon(g, data, lon) ==
    IF ~lon.ok THEN Parsed(g, FALSE)
    ELSE sx_json_sig([g EXCEPT !.longitude = Num(lon.v)],
                     IF HasKey(data, "signalStrength")
                     THEN IntOfValue(data["signalStrength"])
                     ELSE Ok(g.signalStrength.n))
sx_json_lat(g, data, lat) ==
    IF ~lat.ok THEN Parsed(g, FALSE)
    ELSE sx_json_lon([g EXCEPT !.latitude = Num(lat.v)], data,
                     IF HasKey(data, "longitude") THEN FloatOfValue(data["longitude"])
                     ELSE Ok(g.longitude.n))
sx_json_ids(g, data) ==
    sx_json_lat([g EXCEPT !.busId = IF HasKey(data, "busId") THEN data["busId"]
                                    ELSE IF HasKey(data, "busID") THEN data["busID"]
                                    ELSE @],
                data,
                IF HasKey(data, "latitude") THEN FloatOfValue(data["latitude"])
                ELSE Ok(g.latitude.n))
sx_json_loaded(st, j) == IF ~j.ok THEN st ELSE sx_json_ids(st.g, j.d)

\* C21, mutant of sx_json: the whole payload is loaded, not the part from the
\* first "{" to the last "}"
sx_json_whole(ds, st) ==
    IF ~st.parsed /\ Contains(ds, "{") /\ Contains(ds, "}")
    THEN sx_json_loaded(st, JsonLoads(ds))
    ELSE st

\* Attempt 2 of LoRaReceiver.parse_gps_data: the text from the first "{" to the
\* last "}" is loaded as JSON
sx_json(ds, st) ==
    IF ~st.parsed /\ Contains(ds, "{") /\ Contains(ds, "}")
    THEN sx_json_loaded(st, JsonLoads(SubSeq(ds, Find(ds, "{"), RFind(ds, "}"))))
    ELSE st

\* C6, mutant of sx_scan_guard: the scan is run whatever the first two attempts gave
sx_scan_guard_always(st) == TRUE

\* the guard of Attempt 3: "if not parsed or gps_data['latitude'] == 0"
sx_scan_guard(st) == ~st.parsed \/ st.g.latitude.n = 0

sx_regex_numbers(st, numbers) ==
    IF Len(numbers) >= 2
    THEN Parsed([st.g EXCEPT !.latitude = Num(PyFloat(numbers[1]).v),
                             !.longitude = Num(PyFloat(numbers[2]).v)], TRUE)
    ELSE st

\* Attempt 3 of LoRaReceiver.parse_gps_data (regex scan of the whole payload)
sx_regex(ds, st) ==
    IF sx_scan_guard(st) THEN sx_regex_numbers(st, FindFloats(ds, 1)) ELSE st

\* C22, mutant of sx_result: the record is returned whenever a strategy parsed,
\* without the test of the coordinates
sx_result_unfiltered(st) == IF st.parsed THEN Some(st.g) ELSE None

\* "if parsed and (latitude != 0 or longitude != 0): return gps_data"
sx_result(st) ==
    IF st.parsed /\ (st.g.latitude.n # 0 \/ st.g.longitude.n # 0)
    THEN Some(st.g)
    ELSE None

sx_first_two(data_str, t) ==
    sx_json(data_str, sx_csv(data_str, Parsed(sx_default(t), FALSE)))
sx_attempts(data_str, t) == sx_regex(data_str, sx_first_two(data_str, t))

\* LoRaReceiver.parse_gps_data(raw_data) called when the clock reads t:
\* Some(record) or None
sx_parse_gps_data(raw_data, t) == sx_result(sx_attempts(Strip(raw_data), t))

\* --------------------------------------------- pi3_lora_receiver: the decoder
\* Format 1 of parse_gps_data: the dict literal, once its conversions are made
pi3_csv_dict(parts, lat, lon, speed, sig, t) ==
    IF lat.ok /\ lon.ok /\ speed.ok /\ sig.ok
    THEN Some([busId |-> IF parts[1] # <<>> THEN Str(parts[1]) ELSE Str(BUS001),
               latitude |-> Num(lat.v),
               longitude |-> Num(lon.v),
               speed |-> Num(speed.v),
               signalStrength |-> Num(sig.v),
               timestamp |-> strftime(t)])
    ELSE None
pi3_csv(parts, t) ==
    IF Len(parts) >= 3
    THEN pi3_csv_dict(parts, PyFloat(parts[2]), PyFloat(parts[3]),
                      IF Len(parts) > 3 /\ parts[4] # <<>> THEN PyFloat(parts[4])
                      ELSE Ok(0),
                      IF Len(parts) > 4 THEN PyInt(parts[5]) ELSE Ok(85 * Scale),
                      t)
    ELSE None

\* Format 2 of parse_gps_data: the loaded dict, with a timestamp added if absent
pi3_json(j, t) ==
    IF ~j.ok THEN None
    ELSE IF HasKey(j.d, "timestamp") THEN Some(j.d)
    ELSE Some(Put(j.d, "timestamp", strftime(t)))

\* Format 3 of parse_gps_data: "lat, lng = data_str.split(',')"
pi3_pair_dict(lat, lng, t) ==
    IF lat.ok /\ lng.ok
    THEN Some([busId |-> Str(BUS001), latitude |-> Num(lat.v),
               longitude |-> Num(lng.v), speed |-> Num(0),
               signalStrength |-> NumI(85), timestamp |-> strftime(t)])
    ELSE None
pi3_pair(parts, t) == pi3_pair_dict(PyFloat(parts[1]), PyFloat(parts[2]), t)

pi3_formats(data_str, t) ==
    IF Contains(data_str, ",") THEN pi3_csv(Split(data_str, ","), t)
    ELSE IF data_str # <<>> /\ Head(data_str) = "{" THEN pi3_json(JsonLoads(data_str), t)
    ELSE IF Count(data_str, ",") = 1 THEN pi3_pair(Split(data_str, ","), t)
    ELSE None

\* parse_gps_data(raw_data) called when the clock reads t: Some(dict) or None.
\* Any exception inside is caught and gives None.
pi3_parse_gps_data(raw_data, t) == pi3_formats(Strip(raw_data), t)

\* ------------------------------------------ simple_lora_receiver: the decoder
simple_csv_dict(parts, lat, lon, sig, t) ==
    IF lat.ok /\ lon.ok /\ sig.ok
    THEN Some([busId |-> IF parts[1] # <<>> THEN Str(parts[1]) ELSE Str(BUS001),
               latitude |-> Num(lat.v),
               longitude |-> Num(lon.v),
               signalStrength |-> Num(sig.v),
               timestamp |-> strftime(t)])
    ELSE None
simple_csv(parts, t) ==
    IF Len(parts) >= 3
    THEN simple_csv_dict(parts, PyFloat(parts[2]), PyFloat(parts[3]),
                         IF Len(parts) > 3 THEN PyInt(parts[4]) ELSE Ok(0), t)
    ELSE None
simple_json(j) == IF j.ok THEN Some(j.d) ELSE None
simple_pair_dict(lat, lng, t) ==
    IF lat.ok /\ lng.ok
    THEN Some([busId |-> Str(BUS001), latitude |-> Num(lat.v),
               longitude |-> Num(lng.v), signalStrength |-> Num(0),
               timestamp |-> strftime(t)])
    ELSE None
simple_pair(parts, t) == simple_pair_dict(PyFloat(parts[1]), PyFloat(parts[2]), t)
simple_formats(data_str, t) ==
    IF Contains(data_str, ",") THEN simple_csv(Split(data_str, ","), t)
    ELSE IF data_str # <<>> /\ Head(data_str) = "{" THEN simple_json(JsonLoads(data_str))
    ELSE IF Count(data_str, ",") = 1 THEN simple_pair(Split(data_str, ","), t)
    ELSE None

\* parse_gps_data(raw_data): Some(dict) or None; time.strftime() reads the clock
simple_parse_gps_data(raw_data, t) == simple_formats(Strip(raw_data), t)

\* ------------------------------------------ pico_receiver_example: the decoder
parse_lora_data_dict(parts, lat, lon, sig, t) ==
    IF lat.ok /\ lon.ok /\ sig.ok
    THEN Some([busId |-> IF parts[1] # <<>> THEN Str(parts[1]) ELSE Str(BUS001),
               latitude |-> Num(lat.v),
               longitude |-> Num(lon.v),
               signalStrength |-> Num(sig.v),
               timestamp |-> strftime(t)])
    ELSE None
parse_lora_data_parts(parts, t) ==
    IF Len(parts) >= 3
    THEN parse_lora_data_dict(parts, PyFloat(parts[2]), PyFloat(parts[3]),
                              IF Len(parts) > 3 /\ parts[4] # <<>> THEN PyInt(parts[4])
                              ELSE Ok(0), t)
    ELSE None

\* parse_lora_data(data): Some(dict) or None (fewer than 3 parts, or an exception)
parse_lora_data(data, t) == parse_lora_data_parts(Split(data, ","), t)

\* ------------------------------------------------------------ the collector
\* What one HTTP POST to the collector comes to: a response with a status code,
\* a timeout, or a refused connection.
Status(c) == [kind |-> "status", code |-> c]
Timeout == [kind |-> "timeout", code |-> 0]
Refused == [kind |-> "refused", code |-> 0]
Outcomes == {Status(200), Status(204), Status(500), Timeout, Refused}
Is2xx(o) == o.kind = "status" /\ o.code >= 200 /\ o.code <= 299

\* pi3_lora_receiver.send_to_server: "True", "False", or "KeyError" when the
\* success message reads a key the dict lacks (only RequestException is caught)
pi3_send_to_server(gps_data, o) ==
    IF o.kind = "status"
    THEN IF o.code = 200
         THEN IF HasKey(gps_data, "latitude") /\ HasKey(gps_data, "longitude")
              THEN "True" ELSE "KeyError"
         ELSE "False"
    ELSE "False"

\* LoRaReceiver.send_to_server: urlopen raises HTTPError outside 2xx; every
\* exception, the KeyError of the success message included, gives False
sx_send_to_server(gps_data, o) ==
    IF o.kind = "status" /\ o.code = 200
       /\ HasKey(gps_data, "latitude") /\ HasKey(gps_data, "longitude")
    THEN "True" ELSE "False"

\* simple_lora_receiver.send_to_server
simple_send_to_server(gps_data, o) ==
    IF o.kind = "status" /\ o.code = 200 THEN "True" ELSE "False"

\* pico_receiver_example.send_to_server: True for every response
pico_send_to_server(gps_data, o) ==
    IF o.kind = "status" THEN "True" ELSE "False"

\* ------------------------------------------------------- the receiver loops
\* What one pass of a receiver loop comes to: the new last_data and data_count,
\* whether an exception left the loop, the decoded record (None when nothing was
\* decoded) and the send_to_server calls made, in order.
Pass(ld, dc, ended, decoded, sends) ==
    [last_data |-> ld, data_count |-> dc, ended |-> ended,
     decoded |-> decoded, sends |-> sends]
Call(g, o, r) == [rec |-> g, outcome |-> o, result |-> r]

\* bool(d) of an optional dict: None and {} are false
Truthy(od) == od # None /\ DOMAIN od[1] # {}
IsNumber(d, k) == HasKey(d, k) /\ d[k].ty = "num"

\* C2, mutant of pi3_main_sent: last_data is assigned before the result of
\* send_to_server is looked at
pi3_main_sent_unconditional(last_data, data_count, g, o, r) ==
    Pass(Some(g), data_count, r = "KeyError", Some(g), <<Call(g, o, r)>>)

\* pi3_lora_receiver.main, "if send_to_server(gps_data): last_data = gps_data.copy()";
\* a KeyError of send_to_server leaves the loop
pi3_main_sent(last_data, data_count, g, o, r) ==
    IF r = "True"
    THEN Pass(Some(g), data_count, FALSE, Some(g), <<Call(g, o, r)>>)
    ELSE Pass(last_data, data_count, r = "KeyError", Some(g), <<Call(g, o, r)>>)

\* the prints of a new record: a missing key or a non-number under ":.6f" raises,
\* and the exception is caught outside the loop
pi3_main_new(last_data, data_count, g, o) ==
    IF /\ HasKey(g, "busId") /\ IsNumber(g, "latitude") /\ IsNumber(g, "longitude")
       /\ IsNumber(g, "speed") /\ HasKey(g, "signalStrength")
    THEN pi3_main_sent(last_data, data_count + 1, g, o, pi3_send_to_server(g, o))
    ELSE Pass(last_data, data_count + 1, TRUE, Some(g), <<>>)

pi3_main_decoded(last_data, data_count, gps_data, o) ==
    IF ~Truthy(gps_data) THEN Pass(last_data, data_count, FALSE, None, <<>>)
    ELSE IF gps_data = last_data
    THEN Pass(last_data, data_count, FALSE, gps_data, <<>>)
    ELSE pi3_main_new(last_data, data_count, gps_data[1], o)

\* the body of "while True" in pi3_lora_receiver.main; frame is what the serial
\* port holds (None: nothing waiting)
pi3_main_pass(last_data, data_count, frame, o, t) ==
    pi3_main_decoded(last_data, data_count,
                     IF frame = None \/ Strip(frame[1]) = <<>> THEN None
                     ELSE pi3_parse_gps_data(Strip(frame[1]), t),
                     o)

\* LoRaReceiver.on_rx_done, "if self.send_to_server(gps_data): self.last_data = ..."
sx_on_rx_sent(last_data, data_count, g, o, r) ==
    IF r = "True"
    THEN Pass(Some(g), data_count, FALSE, Some(g), <<Call(g, o, r)>>)
    ELSE Pass(last_data, data_count, FALSE, Some(g), <<Call(g, o, r)>>)

\* the prints of a new record; their exception is caught inside on_rx_done
sx_on_rx_new(last_data, data_count, g, o) ==
    IF /\ HasKey(g, "busId") /\ IsNumber(g, "latitude") /\ IsNumber(g, "longitude")
       /\ HasKey(g, "signalStrength")
    THEN sx_on_rx_sent(last_data, data_count + 1, g, o, sx_send_to_server(g, o))
    ELSE Pass(last_data, data_count + 1, FALSE, Some(g), <<>>)

sx_on_rx_decoded(last_data, data_count, gps_data, o) ==
    IF ~Truthy(gps_data) THEN Pass(last_data, data_count, FALSE, None, <<>>)
    ELSE IF gps_data = last_data
    THEN Pass(last_data, data_count, FALSE, gps_data, <<>>)
    ELSE sx_on_rx_new(last_data, data_count, gps_data[1], o)

\* LoRaReceiver.on_rx_done, called by main when rx_done is flagged
sx_on_rx_done(last_data, data_count, frame, o, t) ==
    sx_on_rx_decoded(last_data, data_count,
                     IF frame = None THEN None ELSE sx_parse_gps_data(frame[1], t), o)

\* C9, mutant of simple_main_sent: a failed send is retried at once, in the same pass
simple_main_sent_retry(last_data, data_count, g, o, r) ==
    IF r = "True"
    THEN Pass(Some(g), data_count, FALSE, Some(g), <<Call(g, o, r)>>)
    ELSE Pass(last_data, data_count, FALSE, Some(g), <<Call(g, o, r), Call(g, o, r)>>)

\* simple_lora_receiver.main, "if send_to_server(gps_data): last_data = gps_data.copy()"
simple_main_sent(last_data, data_count, g, o, r) ==
    IF r = "True"
    THEN Pass(Some(g), data_count, FALSE, Some(g), <<Call(g, o, r)>>)
    ELSE Pass(last_data, data_count, FALSE, Some(g), <<Call(g, o, r)>>)

simple_main_decoded(last_data, data_count, gps_data, o) ==
    IF ~Truthy(gps_data) THEN Pass(last_data, data_count, FALSE, None, <<>>)
    ELSE IF gps_data = last_data
    THEN Pass(last_data, data_count, FALSE, gps_data, <<>>)
    ELSE simple_main_sent(last_data, data_count, gps_data[1], o,
                          simple_send_to_server(gps_data[1], o))

\* the body of "while True" in simple_lora_receiver.main
simple_main_pass(last_data, data_count, frame, o, t) ==
    simple_main_decoded(last_data, data_count,
                        IF frame = None THEN None
                        ELSE simple_parse_gps_data(frame[1], t), o)

\* pico_receiver_example.main, "if send_to_server(gps_data): last_sent_data = ..."
pico_main_sent(last_sent_data, data_count, g, o, r) ==
    IF r = "True"
    THEN Pass(Some(g), data_count, FALSE, Some(g), <<Call(g, o, r)>>)
    ELSE Pass(last_sent_data, data_count, FALSE, Some(g), <<Call(g, o, r)>>)

pico_main_decoded(last_sent_data, data_count, gps_data, o) ==
    IF ~Truthy(gps_data) THEN Pass(last_sent_data, data_count, FALSE, None, <<>>)
    ELSE IF gps_data = last_sent_data
    THEN Pass(last_sent_data, data_count, FALSE, gps_data, <<>>)
    ELSE pico_main_sent(last_sent_data, data_count, gps_data[1], o,
                        pico_send_to_server(gps_data[1], o))

\* the body of "while True" in pico_receiver_example.main
pico_main_pass(last_sent_data, data_count, frame, o, t) ==
    pico_main_decoded(last_sent_data, data_count,
                      IF frame = None THEN None ELSE parse_lora_data(frame[1], t), o)

\* ------------------------------------------------------- the receiver scripts
\* bounds of the receiver runs
MaxFrames == 3
MaxTime == 3
MaxDt == 1

Progs == {"pi3", "sx", "simple", "pico"}

\* the frames a receiver is fed: "BUS,1.5,2.5", "BUS,1.5,3.5", "BUS,0,0",
\* {"latitude":1.5}, "garbage", "1.5,2.5" and {"latitude":1.5,"longitude":2.5}
LoopPayloads ==
    { <<"BUS", ",", "1", ".", "5", ",", "2", ".", "5">>,
      <<"BUS", ",", "1", ".", "5", ",", "3", ".", "5">>,
      <<"BUS", ",", "0", ",", "0">>,
      <<"{", Q, "latitude", Q, ":", "1", ".", "5", "}">>,
      <<"garbage">>,
      <<"1", ".", "5", ",", "2", ".", "5">>,
      <<"{", Q, "latitude", Q, ":", "1", ".", "5", ",", Q, "longitude", Q, ":",
        "2", ".", "5", "}">> }

VARIABLES
    prog,        \* which receiver script runs
    pc,          \* where main() is
    exit,        \* why main() returned before its loop ("" while it has not)
    now,         \* the clock, in ticks
    last_data,   \* last_data / self.last_data / last_sent_data
    data_count,  \* data_count / self.data_count
    nframes,     \* frames received so far
    it,          \* the last pass of the loop: its frame, record and sends, the
                 \* failed record and the last_data it started with
    failed,      \* the record whose send failed, until the next record is decoded
    lastOk,      \* the record of the latest send_to_server call that returned True
    lastSend,    \* the latest send_to_server call
    run,         \* the current run of identical frames and the sends made in it
    radio,       \* the SX127x of pi3_sx127x_receiver: its mode, and the set_mode
                 \* calls made by the latest on_rx_done
    dpayload,    \* the payload bytes LoRaReceiver.parse_gps_data is called on
    dcalls,      \* the calls made on it: clock reading, state after the first two
                 \* attempts, returned value
    conv,        \* the calls of convert_to_degrees made: arguments and result
    trip,        \* the receptions of a transmitted message: the receiver, the
                 \* payload and what its decoder returned
    uart,        \* the lines waiting in the GPS UART of a transmitter
    fed,         \* the lines the GPS module has written so far
    tx_gps_data, \* gps_data of gps_lora_transmitter.main (the held record)
    last_sent_time, \* last_sent_time of a transmitter's main
    sent,        \* the LoRa transmissions made: time and message
    lora_device, \* whether init_lora() gave a device
    lines,       \* the lines a GPS script has taken from its UART, each with what
                 \* the script made of it
    buffer,      \* buffer of NEW.py: the text read and not yet split off as a line
    last_lcd_update, \* last_lcd_update of NEW.py, a ticks_ms() reading
    lcd          \* the LCD refreshes of NEW.py: time, position and completion

rxVars == <<prog, pc, exit, now, last_data, data_count, nframes,
            it, failed, lastOk, lastSend, run, radio>>
decVars == <<dpayload, dcalls, conv, trip>>
txVars == <<uart, fed, tx_gps_data, last_sent_time, sent, lora_device,
            lines, buffer, last_lcd_update, lcd>>
vars == <<rxVars, decVars, txVars>>

\* test_data of test_server_connection / test_with_dummy_data
test_data(p, t) ==
    IF p = "pi3"
    THEN [busId |-> Str(TEST001), latitude |-> Num(40 * Scale + (7128 * Scale) \div 10000),
          longitude |-> Num(0 - (74 * Scale + (60 * Scale) \div 10000)),
          speed |-> Num(0), signalStrength |-> NumI(100), timestamp |-> strftime(t)]
    ELSE [busId |-> Str(TEST001), latitude |-> Num(40 * Scale + (7128 * Scale) \div 10000),
          longitude |-> Num(0 - (74 * Scale + (60 * Scale) \div 10000)),
          signalStrength |-> NumI(100), timestamp |-> strftime(t)]

send_to_server(p, g, o) ==
    CASE p = "pi3" -> pi3_send_to_server(g, o)
      [] p = "sx" -> sx_send_to_server(g, o)
      [] p = "simple" -> simple_send_to_server(g, o)
      [] p = "pico" -> pico_send_to_server(g, o)

main_pass(p, ld, dc, frame, o, t) ==
    CASE p = "pi3" -> pi3_main_pass(ld, dc, frame, o, t)
      [] p = "sx" -> sx_on_rx_done(ld, dc, frame, o, t)
      [] p = "simple" -> simple_main_pass(ld, dc, frame, o, t)
      [] p = "pico" -> pico_main_pass(ld, dc, frame, o, t)

\* the order of the startup steps of each main()
FirstStage(p) ==
    CASE p = "pi3" -> "test_server"
      [] p = "sx" -> "open_source"
      [] p = "simple" -> "wifi"
      [] p = "pico" -> "wifi"
StageAfter(p, stage) ==
    CASE p = "pi3" /\ stage = "test_server" -> "open_source"
      [] p = "sx" /\ stage = "open_source" -> "test_server"
      [] p = "simple" /\ stage = "wifi" -> "test_server"
      [] p = "simple" /\ stage = "test_server" -> "open_source"
      [] OTHER -> "loop"

\* C10, mutant of after_test_server: main goes on whatever the startup test returned
after_test_server_ignored(p, r) == StageAfter(p, "test_server")

\* "if not test_server_connection(): return"
after_test_server(p, r) == IF r = "True" THEN StageAfter(p, "test_server") ELSE "returned"

NoPass ==
    [frame |-> None, decoded |-> None, sends |-> <<>>, prevFail |-> None,
     before |-> None]
NoRun == [payload |-> None, len |-> 0, sends |-> 0, decoded |-> FALSE]
\* the radio before LoRaReceiver.__init__ has run
NoRadio == [mode |-> "SLEEP", set_mode |-> <<>>]

DecIdle == dpayload = <<>> /\ dcalls = <<>> /\ conv = <<>> /\ trip = <<>>
TxIdle ==
    /\ uart = <<>>
    /\ fed = <<>>
    /\ tx_gps_data = None
    /\ last_sent_time = 0
    /\ sent = <<>>
    /\ lora_device = FALSE
    /\ lines = <<>>
    /\ buffer = <<>>
    /\ last_lcd_update = 0
    /\ lcd = <<>>

Init ==
    /\ DecIdle
    /\ TxIdle
    /\ prog \in Progs
    /\ pc = FirstStage(prog)
    /\ exit = ""
    /\ now = 0
    /\ last_data = None
    /\ data_count = 0
    /\ nframes = 0
    /\ it = NoPass
    /\ failed = None
    /\ lastOk = None
    /\ lastSend = None
    /\ run = NoRun
    /\ radio = NoRadio

\* connect_wifi(): simple_lora_receiver gives up after 10 tries and main returns;
\* pico_receiver_example waits until the link is up
ConnectWifi ==
    /\ pc = "wifi"
    /\ \E ok \in (IF prog = "simple" THEN BOOLEAN ELSE {TRUE}) :
         /\ pc' = IF ok THEN StageAfter(prog, "wifi") ELSE "returned"
         /\ exit' = IF ok THEN exit ELSE "wifi"
    /\ UNCHANGED <<prog, now, last_data, data_count, nframes, it, failed, lastOk,
                   lastSend, run, radio, decVars, txVars>>

\* what main does with the result r of the startup send of g
TestServer_result(g, o, r) ==
    /\ pc' = after_test_server(prog, r)
    /\ exit' = IF r = "True" THEN exit ELSE "server"
    /\ lastSend' = Some(Call(g, o, r))
    /\ lastOk' = IF r = "True" THEN Some(g) ELSE lastOk

\* test_server_connection() / test_with_dummy_data() and main's return when it fails
TestServer ==
    /\ pc = "test_server"
    /\ \E o \in Outcomes :
         TestServer_result(test_data(prog, now), o,
                           send_to_server(prog, test_data(prog, now), o))
    /\ UNCHANGED <<prog, now, last_data, data_count, nframes, it, failed, run,
                   radio, decVars, txVars>>

\* LoRaReceiver.__init__: "self.set_mode(MODE.RXCONT)"
sx_init == [mode |-> "RXCONT", set_mode |-> <<>>]

\* C27, mutant of sx_on_rx_finish: set_mode is called only when a record was
\* decoded, as if it stood inside "if gps_data:"
sx_on_rx_finish_decoded(r) ==
    IF r.decoded # None THEN [mode |-> "RXCONT", set_mode |-> <<"RXCONT">>]
    ELSE [radio EXCEPT !.set_mode = <<>>]

\* LoRaReceiver.on_rx_done, after the try statement whose body came to r:
\* "self.set_mode(MODE.RXCONT)"
sx_on_rx_finish(r) == [mode |-> "RXCONT", set_mode |-> <<"RXCONT">>]

\* find_lora_port() / LoRaReceiver() / the pin configurations: the radio or serial
\* source opens or it does not, and main returns when it does not
OpenSource ==
    /\ pc = "open_source"
    /\ \E ok \in BOOLEAN :
         /\ pc' = IF ok THEN StageAfter(prog, "open_source") ELSE "returned"
         /\ exit' = IF ok THEN exit ELSE "source"
         /\ radio' = IF ok /\ prog = "sx" THEN sx_init ELSE radio
    /\ UNCHANGED <<prog, now, last_data, data_count, nframes, it, failed, lastOk,
                   lastSend, run, decVars, txVars>>

\* the state after a pass r of the loop that read frame and then slept dt ticks
LoopPass_result(r, frame, dt) ==
    /\ now' = now + dt
    /\ nframes' = IF frame = None THEN nframes ELSE nframes + 1
    /\ last_data' = r.last_data
    /\ data_count' = r.data_count
    /\ pc' = IF r.ended THEN "ended" ELSE "loop"
    /\ radio' = IF prog = "sx" /\ frame # None /\ ~r.ended THEN sx_on_rx_finish(r)
                ELSE radio
    /\ it' = [frame |-> frame, decoded |-> r.decoded, sends |-> r.sends,
              prevFail |-> failed, before |-> last_data]
    /\ failed' = IF r.decoded = None THEN failed
                 ELSE IF r.sends # <<>> /\ r.sends[Len(r.sends)].result # "True" THEN r.decoded
                 ELSE None
    /\ lastOk' = IF r.sends # <<>> /\ r.sends[Len(r.sends)].result = "True"
                 THEN Some(r.sends[Len(r.sends)].rec) ELSE lastOk
    /\ lastSend' = IF r.sends # <<>> THEN Some(r.sends[Len(r.sends)]) ELSE lastSend
    /\ run' = IF frame = None THEN run
              ELSE IF frame = run.payload
              THEN [run EXCEPT !.len = @ + 1, !.sends = @ + Len(r.sends)]
              ELSE [payload |-> frame, len |-> 1, sends |-> Len(r.sends),
                    decoded |-> r.decoded # None]

\* one pass of the polling loop, sleep included
LoopPass ==
    /\ pc = "loop"
    /\ \E frame \in {None} \cup {Some(p) : p \in LoopPayloads}, o \in Outcomes,
          dt \in 0..MaxDt :
         /\ now + dt <= MaxTime
         /\ frame # None => nframes < MaxFrames
         /\ LoopPass_result(main_pass(prog, last_data, data_count, frame, o, now),
                            frame, dt)
    /\ UNCHANGED <<prog, exit, decVars, txVars>>

\* KeyboardInterrupt
Interrupt ==
    /\ pc = "loop"
    /\ pc' = "interrupted"
    /\ UNCHANGED <<prog, exit, now, last_data, data_count, nframes, it, failed,
                   lastOk, lastSend, run, radio, decVars, txVars>>

Next == ConnectWifi \/ TestServer \/ OpenSource \/ LoopPass \/ Interrupt

Spec == Init /\ [][Next]_vars

\* ------------------------------------------------------------ NMEA sentences
RECURSIVE CharLen(_)
\* len(text): the number of characters of a symbol sequence
CharLen(s) == IF s = <<>> THEN 0 ELSE Len(Head(s)) + CharLen(Tail(s))

\* raw[:2]: the first two characters (a leading run of letters stands for them)
First2(raw) == IF Len(raw) >= 2 /\ Len(raw[1]) = 1 THEN SubSeq(raw, 1, 2) ELSE SubSeq(raw, 1, 1)
\* x / y of fixed-point x by the integer y, to 1/Scale, truncated toward zero
DivBy(x, y) == IF x >= 0 THEN x \div y ELSE 0 - ((0 - x) \div y)

\* What convert_to_degrees comes to: a number ("val"), None ("none") or a
\* ValueError of int() / float() ("raise")
Degrees(st, v) == [st |-> st, v |-> v]
convert_to_degrees_sum(degrees, minutes, direction) ==
    IF ~degrees.ok \/ ~minutes.ok THEN Degrees("raise", 0)
    ELSE IF direction \in {<<"S">>, <<"W">>}
    THEN Degrees("val", 0 - (degrees.v + DivBy(minutes.v, 60)))
    ELSE Degrees("val", degrees.v + DivBy(minutes.v, 60))

\* convert_to_degrees(raw, direction) of gps_lora_transmitter and
\* simple_lora_transmitter (the same code)
convert_to_degrees(raw, direction) ==
    IF raw = <<>> THEN Degrees("none", 0)
    ELSE IF CharLen(raw) > 7
    THEN convert_to_degrees_sum(PyInt(First2(raw)),
                                PyFloat(SubSeq(raw, Len(First2(raw)) + 1, Len(raw))),
                                direction)
    ELSE Degrees("none", 0)

\* "except: return None" of NEW.py
new_convert_to_degrees_except(d) == IF d.st = "raise" THEN Degrees("none", 0) ELSE d

\* convert_to_degrees(raw, direction) of NEW.py: no test of the length, and any
\* exception of int() / float() gives None
new_convert_to_degrees(raw, direction) ==
    IF raw = <<>> THEN Degrees("none", 0)
    ELSE new_convert_to_degrees_except(
             convert_to_degrees_sum(PyInt(First2(raw)),
                                    PyFloat(SubSeq(raw, Len(First2(raw)) + 1, Len(raw))),
                                    direction))

\* bool(x) of what convert_to_degrees returned
IsPosition(d) == d.st = "val" /\ d.v # 0
Bool(b) == [ty |-> "bool", n |-> IF b THEN 1 ELSE 0, s |-> <<>>]

\* data.startswith("$GPGGA") and the like: "$" followed by the run of letters
StartsWithTag(data, tag) == Len(data) >= 2 /\ data[1] = "$" /\ data[2] = tag

\* gps_lora_transmitter.parse_gps_data: "if has_fix and latitude and longitude"
gpstx_parse_record(latitude, longitude, has_fix, t) ==
    IF has_fix /\ IsPosition(latitude) /\ IsPosition(longitude)
    THEN Some([latitude |-> Num(latitude.v), longitude |-> Num(longitude.v),
               fix |-> Bool(has_fix), timestamp |-> strftime(t)])
    ELSE None

\* the fields of a $GPGGA / $GPRMC line; parts[5] of a shorter line is an IndexError
gpstx_parse_parts(data, parts, t) ==
    IF Len(parts) < 6 \/ parts[3] = <<>> \/ parts[5] = <<>> THEN None
    ELSE gpstx_parse_record(convert_to_degrees(parts[3], parts[4]),
                            convert_to_degrees(parts[5], parts[6]),
                            ~(StartsWithTag(data, "GPGGA") /\ Len(parts) > 6
                              /\ parts[7] = <<"0">>),
                            t)

gpstx_parse_data(data, t) ==
    IF StartsWithTag(data, "GPGGA") \/ StartsWithTag(data, "GPRMC")
    THEN gpstx_parse_parts(data, Split(data, ","), t)
    ELSE None

\* gps_lora_transmitter.parse_gps_data() when uart.readline() gives line at the
\* clock reading t: Some(dict) or None
gpstx_parse_gps_data(line, t) == gpstx_parse_data(Strip(line), t)

\* the exception raised inside the try block of gps_lora_transmitter.
\* parse_gps_data ("" when there is none): parts[5] of a short line, int() or
\* float() inside convert_to_degrees
gpstx_parse_err_parts(parts) ==
    IF Len(parts) < 6 THEN "IndexError"
    ELSE IF parts[3] = <<>> \/ parts[5] = <<>> THEN ""
    ELSE IF convert_to_degrees(parts[3], parts[4]).st = "raise"
            \/ convert_to_degrees(parts[5], parts[6]).st = "raise"
    THEN "ValueError"
    ELSE ""
gpstx_parse_err(data) ==
    IF StartsWithTag(data, "GPGGA") \/ StartsWithTag(data, "GPRMC")
    THEN gpstx_parse_err_parts(Split(data, ","))
    ELSE ""

\* the exception that leaves the parser, when its try block raised err
\* C19, mutant of parse_except: the handler lets the exception through
parse_except_reraised(err) == err

\* "except Exception as e: print(...)", then "return None"
parse_except(err) == ""

\* simple_lora_transmitter.parse_nmea, the dict of a $GPGGA sentence
parse_nmea_gga_dict(data, latitude, longitude, satellites) ==
    IF IsPosition(latitude) /\ IsPosition(longitude) /\ satellites.ok
    THEN Some([latitude |-> Num(latitude.v), longitude |-> Num(longitude.v),
               time |-> Str(data[2]), fix |-> Bool(TRUE),
               satellites |-> Num(satellites.v)])
    ELSE None

\* the $GPGGA branch; data[6] of a sentence of six fields is an IndexError
parse_nmea_gga(data) ==
    IF Len(data) < 7 THEN None
    ELSE IF data[7] = <<"0">> \/ data[3] = <<>> \/ data[5] = <<>> THEN None
    ELSE parse_nmea_gga_dict(data, convert_to_degrees(data[3], data[4]),
                             convert_to_degrees(data[5], data[6]),
                             IF Len(data) > 7 /\ data[8] # <<>> THEN PyInt(data[8])
                             ELSE Ok(0))

\* simple_lora_transmitter.parse_nmea, the dict of a $GPRMC sentence
parse_nmea_rmc_dict(data, latitude, longitude, speed_knots) ==
    IF IsPosition(latitude) /\ IsPosition(longitude) /\ speed_knots.ok
    THEN Some([latitude |-> Num(latitude.v), longitude |-> Num(longitude.v),
               speed |-> Num(DivBy(speed_knots.v * 1852, 1000)),
               time |-> Str(data[2]), fix |-> Bool(TRUE)])
    ELSE None

\* the $GPRMC branch
parse_nmea_rmc(data) ==
    IF data[3] # <<"A">> \/ data[4] = <<>> \/ data[6] = <<>> THEN None
    ELSE parse_nmea_rmc_dict(data, convert_to_degrees(data[4], data[5]),
                             convert_to_degrees(data[6], data[7]),
                             IF Len(data) > 7 /\ data[8] # <<>> THEN PyFloat(data[8])
                             ELSE Ok(0))

parse_nmea_fields(data) ==
    IF data[1] = <<"$", "GPGGA">> /\ Len(data) >= 6 THEN parse_nmea_gga(data)
    ELSE IF data[1] = <<"$", "GPRMC">> /\ Len(data) >= 7 THEN parse_nmea_rmc(data)
    ELSE None

\* the exception raised inside the try block of parse_nmea ("" when there is
\* none): data[6] of a $GPGGA sentence of six fields, int() or float() inside
\* convert_to_degrees, int() of the satellites, float() of the speed
parse_nmea_err_gga(data) ==
    IF Len(data) < 7 THEN "IndexError"
    ELSE IF data[7] = <<"0">> \/ data[3] = <<>> \/ data[5] = <<>> THEN ""
    ELSE IF convert_to_degrees(data[3], data[4]).st = "raise"
            \/ convert_to_degrees(data[5], data[6]).st = "raise"
    THEN "ValueError"
    ELSE IF IsPosition(convert_to_degrees(data[3], data[4]))
            /\ IsPosition(convert_to_degrees(data[5], data[6]))
            /\ Len(data) > 7 /\ data[8] # <<>> /\ ~PyInt(data[8]).ok
    THEN "ValueError"
    ELSE ""
parse_nmea_err_rmc(data) ==
    IF data[3] # <<"A">> \/ data[4] = <<>> \/ data[6] = <<>> THEN ""
    ELSE IF convert_to_degrees(data[4], data[5]).st = "raise"
            \/ convert_to_degrees(data[6], data[7]).st = "raise"
    THEN "ValueError"
    ELSE IF IsPosition(convert_to_degrees(data[4], data[5]))
            /\ IsPosition(convert_to_degrees(data[6], data[7]))
            /\ Len(data) > 7 /\ data[8] # <<>> /\ ~PyFloat(data[8]).ok
    THEN "ValueError"
    ELSE ""
parse_nmea_err_fields(data) ==
    IF data[1] = <<"$", "GPGGA">> /\ Len(data) >= 6 THEN parse_nmea_err_gga(data)
    ELSE IF data[1] = <<"$", "GPRMC">> /\ Len(data) >= 7 THEN parse_nmea_err_rmc(data)
    ELSE ""
parse_nmea_err(sentence) ==
    IF sentence = <<>> \/ Head(sentence) # "$" THEN ""
    ELSE parse_nmea_err_fields(Split(sentence, ","))

\* simple_lora_transmitter.parse_nmea(sentence): Some(dict) or None
parse_nmea(sentence) ==
    IF sentence = <<>> \/ Head(sentence) # "$" THEN None
    ELSE parse_nmea_fields(Split(sentence, ","))

\* ------------------------------------------------- the transmitted messages
DigitChar(d) == CHOOSE c \in Digits : DigitVal(c) = d
RECURSIVE DigitsOf(_)
\* the decimal digits of a natural number
DigitsOf(n) == IF n < 10 THEN <<DigitChar(n)>> ELSE Append(DigitsOf(n \div 10), DigitChar(n % 10))
RECURSIVE ZeroPad(_, _)
ZeroPad(digs, w) == IF Len(digs) >= w THEN digs ELSE ZeroPad(<<"0">> \o digs, w)
Abs(n) == IF n < 0 THEN 0 - n ELSE n

\* f"{x:.6f}": the digits the fixed-point number keeps, then zeros
Format6(n) ==
    (IF n < 0 THEN <<"-">> ELSE <<>>) \o DigitsOf(Abs(n) \div Scale) \o <<".">>
        \o ZeroPad(DigitsOf(Abs(n) % Scale), FracDigits)
        \o [i \in 1..(6 - FracDigits) |-> "0"]
\* f"{x:.1f}": rounded to tenths
Format1_tenths(neg, r) ==
    (IF neg /\ r > 0 THEN <<"-">> ELSE <<>>) \o DigitsOf(r \div 10) \o <<".", DigitChar(r % 10)>>
Format1(n) == Format1_tenths(n < 0, (Abs(n) * 10 + Scale \div 2) \div Scale)

\* gps_lora_transmitter.format_lora_data: "BUSID,LATITUDE,LONGITUDE,SIGNAL"
format_lora_data(gps_data) ==
    BUS001 \o <<",">> \o Format6(gps_data.latitude.n) \o <<",">>
        \o Format6(gps_data.longitude.n) \o <<",", "8", "5">>

\* simple_lora_transmitter.format_gps_data: "BUSID,LATITUDE,LONGITUDE,SPEED,SIGNAL"
format_gps_data(gps_data) ==
    BUS001 \o <<",">> \o Format6(gps_data.latitude.n) \o <<",">>
        \o Format6(gps_data.longitude.n) \o <<",">>
        \o Format1(IF HasKey(gps_data, "speed") THEN gps_data.speed.n ELSE 0)
        \o <<",", "8", "5">>

\* ------------------------------------- repeated decoding of one payload
\* bound on the calls of parse_gps_data made on the same payload bytes
MaxCalls == 2

\* the payloads decoded: "BUS,1.5,2.5", "B1.5,0.0,2.5", "B1.5,2.5,3.5",
\* "BUS,0,2.5", "BUS,0,0", "BUS,x,2.5", "1.5,2.5", "BUS,1.5,2.5,85",
\* {"latitude":0,"longitude":1.5,"x":2.5}, {"latitude":1.5,"longitude":2.5},
\* "lat 1.5 lon 2.5", "B1.5,0.0,2.5,70", "0,0", "garbage",
\* v1.0 {"latitude":1.5,"longitude":2.5} end,
\* 9.5 {"latitude":0,"longitude":1.5} 7.5,
\* 3.5 {"latitude":1.5 "longitude":2.5}, "{x}", "B7,x,1.5,2.5" and
\* "BUS,1.5,2.5,x"
DecodePayloads ==
    { <<"BUS", ",", "1", ".", "5", ",", "2", ".", "5">>,
      <<"B", "1", ".", "5", ",", "0", ".", "0", ",", "2", ".", "5">>,
      <<"B", "1", ".", "5", ",", "2", ".", "5", ",", "3", ".", "5">>,
      <<"BUS", ",", "0", ",", "2", ".", "5">>,
      <<"BUS", ",", "0", ",", "0">>,
      <<"BUS", ",", "x", ",", "2", ".", "5">>,
      <<"1", ".", "5", ",", "2", ".", "5">>,
      <<"BUS", ",", "1", ".", "5", ",", "2", ".", "5", ",", "8", "5">>,
      <<"{", Q, "latitude", Q, ":", "0", ",", Q, "longitude", Q, ":", "1", ".", "5",
        ",", Q, "x", Q, ":", "2", ".", "5", "}">>,
      <<"{", Q, "latitude", Q, ":", "1", ".", "5", ",", Q, "longitude", Q, ":",
        "2", ".", "5", "}">>,
      <<"lat", " ", "1", ".", "5", " ", "lon", " ", "2", ".", "5">>,
      <<"B", "1", ".", "5", ",", "0", ".", "0", ",", "2", ".", "5", ",", "7", "0">>,
      <<"0", ",", "0">>,
      <<"garbage">>,
      <<"v", "1", ".", "0", " ", "{", Q, "latitude", Q, ":", "1", ".", "5", ",",
        Q, "longitude", Q, ":", "2", ".", "5", "}", " ", "end">>,
      <<"9", ".", "5", " ", "{", Q, "latitude", Q, ":", "0", ",",
        Q, "longitude", Q, ":", "1", ".", "5", "}", " ", "7", ".", "5">>,
      <<"3", ".", "5", " ", "{", Q, "latitude", Q, ":", "1", ".", "5", " ",
        Q, "longitude", Q, ":", "2", ".", "5", "}">>,
      <<"{", "x", "}">>,
      <<"B", "7", ",", "x", ",", "1", ".", "5", ",", "2", ".", "5">>,
      <<"BUS", ",", "1", ".", "5", ",", "2", ".", "5", ",", "x">> }

\* the radio holds one payload; on_rx_done may decode the same bytes again later
InitDecode ==
    /\ prog = "sx"
    /\ pc = "decode"
    /\ exit = ""
    /\ now = 0
    /\ last_data = None
    /\ data_count = 0
    /\ nframes = 0
    /\ it = NoPass
    /\ failed = None
    /\ lastOk = None
    /\ lastSend = None
    /\ run = NoRun
    /\ radio = NoRadio
    /\ dpayload \in DecodePayloads
    /\ dcalls = <<>>
    /\ conv = <<>>
    /\ trip = <<>>
    /\ TxIdle

\* the clock advances
DecodeTick ==
    /\ pc = "decode"
    /\ now < MaxTime
    /\ now' = now + 1
    /\ UNCHANGED <<prog, pc, exit, last_data, data_count, nframes, it, failed,
                   lastOk, lastSend, run, radio, decVars, txVars>>

\* self.parse_gps_data(message) at the clock reading now
DecodeCall ==
    /\ pc = "decode"
    /\ Len(dcalls) < MaxCalls
    /\ dcalls' = Append(dcalls, [t |-> now,
                                 pre |-> sx_first_two(Strip(dpayload), now),
                                 res |-> sx_parse_gps_data(dpayload, now)])
    /\ UNCHANGED <<rxVars, dpayload, conv, trip, txVars>>

NextDecode == DecodeTick \/ DecodeCall

SpecDecode == InitDecode /\ [][NextDecode]_vars

\* ------------------------------------------------------- the GPS-side scripts
\* bounds of the runs: the clock of a transmitter, in ticks, the lines fed to
\* it, the ticks NEW.py runs for and the longest piece the GPS module writes
\* at once
MaxTxTime == 21
MaxSentences == 2
MaxLcdTime == 7
MaxChunk == 40
\* "send_interval = 5  # Send every 5 seconds"
send_interval == 5
\* "if time.ticks_diff(time.ticks_ms(), last_lcd_update) > 1000"
lcd_interval == 1000
\* the period of time.ticks_ms(): 2^30
TICKS_PERIOD == 1073741824

TxProgs == {"gps_tx", "simple_tx"}
GpsProgs == TxProgs \cup {"new"}

\* the lines the GPS module writes to a transmitter:
\* "$GPGGA,120000,0230.000,N,10130.000,E,1,08",
\* "$GPGGA,120001,0330.000,N,10130.000,E,1,08", the first with fix quality 0,
\* "$GPRMC,120000,A,0230.000,N,10130.000,E,10.0", "noise",
\* "$GPGGA,1,0000.000,N,10130.000,E,1" (on the equator),
\* "$GPGGA,1,0230.000,N,10130.000,E" (six fields) and
\* "$GPGGA,1,02x0.0000,N,10130.000,E,1" (a latitude that is no number)
Sentences ==
    { <<"$", "GPGGA", ",", "1", "2", "0", "0", "0", "0", ",", "0", "2", "3", "0", ".",
        "0", "0", "0", ",", "N", ",", "1", "0", "1", "3", "0", ".", "0", "0", "0", ",",
        "E", ",", "1", ",", "0", "8">>,
      <<"$", "GPGGA", ",", "1", "2", "0", "0", "0", "1", ",", "0", "3", "3", "0", ".",
        "0", "0", "0", ",", "N", ",", "1", "0", "1", "3", "0", ".", "0", "0", "0", ",",
        "E", ",", "1", ",", "0", "8">>,
      <<"$", "GPGGA", ",", "1", "2", "0", "0", "0", "0", ",", "0", "2", "3", "0", ".",
        "0", "0", "0", ",", "N", ",", "1", "0", "1", "3", "0", ".", "0", "0", "0", ",",
        "E", ",", "0", ",", "0", "8">>,
      <<"$", "GPRMC", ",", "1", "2", "0", "0", "0", "0", ",", "A", ",", "0", "2", "3",
        "0", ".", "0", "0", "0", ",", "N", ",", "1", "0", "1", "3", "0", ".", "0", "0",
        "0", ",", "E", ",", "1", "0", ".", "0">>,
      <<"noise">>,
      <<"$", "GPGGA", ",", "1", ",", "0", "0", "0", "0", ".", "0", "0", "0", ",", "N",
        ",", "1", "0", "1", "3", "0", ".", "0", "0", "0", ",", "E", ",", "1">>,
      <<"$", "GPGGA", ",", "1", ",", "0", "2", "3", "0", ".", "0", "0", "0", ",", "N",
        ",", "1", "0", "1", "3", "0", ".", "0", "0", "0", ",", "E">>,
      <<"$", "GPGGA", ",", "1", ",", "0", "2", "x", "0", ".", "0", "0", "0", "0", ",",
        "N", ",", "1", "0", "1", "3", "0", ".", "0", "0", "0", ",", "E", ",", "1">> }

\* the byte streams the GPS module writes to NEW.py:
\* "$GPGGA,1,0230.5,N,0130.5,E,0\r\n$GPGGA,1,0330.5,N,0130.5,E,1\n" and
\* "x\n$GPRMC,1,A,0230.5,N,0130.5,E\n$GPGGA,1,0230.5,S,0130.5,W,1\n"
Streams ==
    { <<"$", "GPGGA", ",", "1", ",", "0", "2", "3", "0", ".", "5", ",", "N", ",",
        "0", "1", "3", "0", ".", "5", ",", "E", ",", "0", "\r", "\n",
        "$", "GPGGA", ",", "1", ",", "0", "3", "3", "0", ".", "5", ",", "N", ",",
        "0", "1", "3", "0", ".", "5", ",", "E", ",", "1", "\n">>,
      <<"x", "\n",
        "$", "GPRMC", ",", "1", ",", "A", ",", "0", "2", "3", "0", ".", "5", ",", "N",
        ",", "0", "1", "3", "0", ".", "5", ",", "E", "\n",
        "$", "GPGGA", ",", "1", ",", "0", "2", "3", "0", ".", "5", ",", "S", ",",
        "0", "1", "3", "0", ".", "5", ",", "W", ",", "1", "\n">> }

\* the length of a clock tick in milliseconds, and time.ticks_ms() at tick t
MsPerTick == 1000 \div TicksPerSec
ticks_ms(t) == (t * MsPerTick) % TICKS_PERIOD
\* time.ticks_diff(a, b): the signed difference within half a period
ticks_diff(a, b) ==
    ((a - b + TICKS_PERIOD \div 2) % TICKS_PERIOD) - TICKS_PERIOD \div 2
\* a boot time after which ticks_ms() wraps around within the run, and the
\* ticks gone by since boot
WrapStart == TICKS_PERIOD \div MsPerTick - 2
Elapsed(t) == IF t >= WrapStart THEN t - WrapStart ELSE t

\* a script's main at the top of its loop; time.time() may read 0 at boot or a
\* time already past the first interval, ticks_ms() may be about to wrap
InitTx ==
    /\ prog \in GpsProgs
    /\ pc = "tx_loop"
    /\ exit = ""
    /\ now \in (IF prog = "new" THEN {0, WrapStart} ELSE {0, send_interval * TicksPerSec})
    /\ last_data = None
    /\ data_count = 0
    /\ nframes = 0
    /\ it = NoPass
    /\ failed = None
    /\ lastOk = None
    /\ lastSend = None
    /\ run = NoRun
    /\ radio = NoRadio
    /\ DecIdle
    /\ uart = <<>>
    /\ fed = <<>>
    /\ tx_gps_data = None
    /\ last_sent_time = 0
    /\ sent = <<>>
    /\ lora_device \in (IF prog = "gps_tx" THEN BOOLEAN ELSE {TRUE})
    /\ lines = <<>>
    /\ buffer = <<>>
    /\ last_lcd_update = ticks_ms(now)
    /\ lcd = <<>>

\* the GPS module writes a line to the UART of a transmitter
GpsWrites ==
    /\ pc = "tx_loop"
    /\ prog \in TxProgs
    /\ Len(fed) < MaxSentences
    /\ \E line \in Sentences :
         /\ uart' = Append(uart, line)
         /\ fed' = Append(fed, line)
    /\ UNCHANGED <<rxVars, decVars, tx_gps_data, last_sent_time, sent, lora_device,
                   lines, buffer, last_lcd_update, lcd>>

\* the text a UART holds, as one piece
Text(pieces) == IF pieces = <<>> THEN <<>> ELSE pieces[1]

\* the GPS module writes the next k bytes of its stream to the UART of NEW.py
GpsWritesBytes ==
    /\ pc = "tx_loop"
    /\ prog = "new"
    /\ \E S \in Streams, k \in 1..MaxChunk :
         /\ Len(Text(fed)) + k <= Len(S)
         /\ SubSeq(S, 1, Len(Text(fed))) = Text(fed)
         /\ fed' = <<SubSeq(S, 1, Len(Text(fed)) + k)>>
         /\ uart' = <<Text(uart) \o SubSeq(S, Len(Text(fed)) + 1, Len(Text(fed)) + k)>>
    /\ UNCHANGED <<rxVars, decVars, tx_gps_data, last_sent_time, sent, lora_device,
                   lines, buffer, last_lcd_update, lcd>>

Transmission(t, text) == [t |-> t, text |-> text]
\* a line taken from the UART: its text, what the script made of it, the
\* exception raised inside the parser and the exception that left the parser
Read(raw, res, err) == [raw |-> raw, res |-> res, err |-> err, out |-> parse_except(err)]

\* C8, mutant of gpstx_main_send: last_sent_time is not set after a transmission
gpstx_main_send_unstamped(held, current_time, dt) ==
    /\ tx_gps_data' = held
    /\ uart' = IF uart = <<>> THEN uart ELSE Tail(uart)
    /\ sent' = IF lora_device /\ held # None
                  /\ current_time - last_sent_time >= send_interval
               THEN Append(sent, Transmission(current_time, format_lora_data(held[1])))
               ELSE sent
    /\ now' = now + dt
    /\ UNCHANGED <<prog, exit, last_data, data_count, nframes, it, failed,
                   lastOk, lastSend, run, radio, decVars, fed, lora_device, last_sent_time,
                   buffer, last_lcd_update, lcd>>

\* gps_lora_transmitter.main: "if lora_device and gps_data and (current_time -
\* last_sent_time >= send_interval)", then time.sleep
gpstx_main_send(held, current_time, dt) ==
    /\ tx_gps_data' = held
    /\ uart' = IF uart = <<>> THEN uart ELSE Tail(uart)
    /\ IF lora_device /\ held # None /\ current_time - last_sent_time >= send_interval
       THEN /\ sent' = Append(sent, Transmission(current_time, format_lora_data(held[1])))
            /\ last_sent_time' = current_time
       ELSE UNCHANGED <<sent, last_sent_time>>
    /\ now' = now + dt
    /\ UNCHANGED <<prog, exit, last_data, data_count, nframes, it, failed,
                   lastOk, lastSend, run, radio, decVars, fed, lora_device,
                   buffer, last_lcd_update, lcd>>

\* "if new_gps_data: if new_gps_data != gps_data: gps_data = new_gps_data"
gpstx_main_pass(new_gps_data, current_time, dt) ==
    gpstx_main_send(IF new_gps_data # None /\ new_gps_data # tx_gps_data
                    THEN new_gps_data ELSE tx_gps_data,
                    current_time, dt)

\* "new_gps_data = parse_gps_data()": the line read, if there is one, and an
\* exception that leaves parse_gps_data ends main, which has no handler
gpstx_main_read(r) ==
    /\ lines' = Append(lines, r)
    /\ pc' = IF r.out = "" THEN pc ELSE "crashed"

\* one pass of "while True" in gps_lora_transmitter.main
GpsTxPass ==
    /\ pc = "tx_loop"
    /\ prog = "gps_tx"
    /\ \E dt \in 0..MaxDt :
         /\ now + dt <= MaxTxTime
         /\ gpstx_main_pass(IF uart = <<>> THEN None
                            ELSE gpstx_parse_gps_data(Head(uart), now),
                            now \div TicksPerSec, dt)
    /\ IF uart = <<>> THEN UNCHANGED <<lines, pc>>
       ELSE gpstx_main_read(Read(Head(uart), gpstx_parse_gps_data(Head(uart), now),
                                 gpstx_parse_err(Strip(Head(uart)))))

\* simple_lora_transmitter.main: "if gps_data and gps_data.get('fix')"; an
\* exception that leaves parse_nmea is caught by the handler of the loop
simpletx_main_send(got, current_time, dt) ==
    /\ uart' = IF uart = <<>> THEN uart ELSE Tail(uart)
    /\ lines' = IF uart = <<>> THEN lines
                ELSE Append(lines, Read(Head(uart), got, parse_nmea_err(Strip(Head(uart)))))
    /\ IF got # None
       THEN /\ sent' = Append(sent, Transmission(current_time, format_gps_data(got[1])))
            /\ last_sent_time' = current_time
       ELSE UNCHANGED <<sent, last_sent_time>>
    /\ now' = now + dt
    /\ UNCHANGED <<prog, pc, exit, last_data, data_count, nframes, it, failed,
                   lastOk, lastSend, run, radio, decVars, fed, lora_device, tx_gps_data,
                   buffer, last_lcd_update, lcd>>

\* one pass of "while True" in simple_lora_transmitter.main, reading the GPS
\* UART: a line is read only when the interval has elapsed
SimpleTxPass ==
    /\ pc = "tx_loop"
    /\ prog = "simple_tx"
    /\ \E dt \in 0..MaxDt :
         /\ now + dt <= MaxTxTime
         /\ IF now \div TicksPerSec - last_sent_time >= send_interval
            THEN simpletx_main_send(IF uart = <<>> THEN None
                                    ELSE parse_nmea(Strip(Head(uart))),
                                    now \div TicksPerSec, dt)
            ELSE /\ now' = now + dt
                 /\ UNCHANGED <<prog, pc, exit, last_data, data_count, nframes, it,
                                failed, lastOk, lastSend, run, radio, decVars, txVars>>

\* NEW.py, what the loop prints for a line: "if len(parts) > 5 and parts[2] and
\* parts[4]", then "if lat is not None and lon is not None"
new_position_parts(parts) ==
    IF Len(parts) > 5 /\ parts[3] # <<>> /\ parts[5] # <<>>
       /\ new_convert_to_degrees(parts[3], parts[4]).st = "val"
       /\ new_convert_to_degrees(parts[5], parts[6]).st = "val"
    THEN Some([latitude |-> Num(new_convert_to_degrees(parts[3], parts[4]).v),
               longitude |-> Num(new_convert_to_degrees(parts[5], parts[6]).v)])
    ELSE None
new_position(line) ==
    IF StartsWithTag(line, "GPGGA") \/ StartsWithTag(line, "GPRMC")
    THEN new_position_parts(Split(line, ","))
    ELSE None

\* what handling one read comes to: the buffer, the throttle clock, the lines
\* processed, the refreshes, and whether an LCD write raised OSError
NewOut(buf, last, ls, lc, raised) ==
    [buffer |-> buf, last_lcd_update |-> last, lines |-> ls, lcd |-> lc,
     raised |-> raised]
Refresh(t, pos, done) == [t |-> t, pos |-> pos, done |-> done]

RECURSIVE new_while(_, _, _, _, _, _)
\* C11, mutant of new_refresh: last_lcd_update is not set after a refresh
new_refresh_unstamped(rest, last, ls, lc, t, ok, pos) ==
    IF pos # None /\ ticks_diff(ticks_ms(t), last) > lcd_interval
    THEN IF ok
         THEN new_while(rest, last, ls, Append(lc, Refresh(t, pos, TRUE)), t, ok)
         ELSE NewOut(rest, last, ls, Append(lc, Refresh(t, pos, FALSE)), TRUE)
    ELSE new_while(rest, last, ls, lc, t, ok)

\* "if time.ticks_diff(time.ticks_ms(), last_lcd_update) > 1000": the LCD is
\* written and last_lcd_update set; an LCD write that raises leaves the loop
new_refresh(rest, last, ls, lc, t, ok, pos) ==
    IF pos # None /\ ticks_diff(ticks_ms(t), last) > lcd_interval
    THEN IF ok
         THEN new_while(rest, ticks_ms(t), ls, Append(lc, Refresh(t, pos, TRUE)), t, ok)
         ELSE NewOut(rest, last, ls, Append(lc, Refresh(t, pos, FALSE)), TRUE)
    ELSE new_while(rest, last, ls, lc, t, ok)

\* C12, mutant of new_line: the character after the line break is dropped too
new_line_dropping(buf, i, last, ls, lc, t, ok, pos) ==
    new_refresh(SubSeq(buf, i + 2, Len(buf)), last,
                Append(ls, Read(SubSeq(buf, 1, i - 1), pos, "")), lc, t, ok, pos)

\* "line, buffer = buffer.split("\n", 1)", the line break being buf[i]
new_line(buf, i, last, ls, lc, t, ok, pos) ==
    new_refresh(SubSeq(buf, i + 1, Len(buf)), last,
                Append(ls, Read(SubSeq(buf, 1, i - 1), pos, "")), lc, t, ok, pos)

\* "while "\n" in buffer"
new_while(buf, last, ls, lc, t, ok) ==
    IF Contains(buf, "\n")
    THEN new_line(buf, Find(buf, "\n"), last, ls, lc, t, ok,
                  new_position(Strip(SubSeq(buf, 1, Find(buf, "\n") - 1))))
    ELSE NewOut(buf, last, ls, lc, FALSE)

\* the end of a pass: time.sleep_ms(50), or time.sleep(1) in the handler
new_pass(r, dt) ==
    /\ Elapsed(now) + dt + (IF r.raised THEN TicksPerSec ELSE 0) <= MaxLcdTime
    /\ buffer' = r.buffer
    /\ last_lcd_update' = r.last_lcd_update
    /\ lines' = r.lines
    /\ lcd' = r.lcd
    /\ uart' = <<>>
    /\ now' = now + dt + (IF r.raised THEN TicksPerSec ELSE 0)
    /\ UNCHANGED <<prog, pc, exit, last_data, data_count, nframes, it, failed,
                   lastOk, lastSend, run, radio, decVars, fed, tx_gps_data, last_sent_time,
                   sent, lora_device>>

\* one pass of "while True" in NEW.py: "if gps.any(): data = gps.read()"
NewPass ==
    /\ pc = "tx_loop"
    /\ prog = "new"
    /\ \E dt \in 0..MaxDt, ok \in BOOLEAN :
         new_pass(IF uart = <<>>
                  THEN NewOut(buffer, last_lcd_update, lines, lcd, FALSE)
                  ELSE new_while(buffer \o Text(uart), last_lcd_update, lines, lcd,
                                 now, ok),
                  dt)

NextTx == GpsWrites \/ GpsTxPass \/ SimpleTxPass \/ GpsWritesBytes \/ NewPass

SpecTx == InitTx /\ [][NextTx]_vars

\* ------------------------------------------------- calls of convert_to_degrees
\* bound on the calls made
MaxConvCalls == 2

\* the raw coordinates passed: "4807.038", "01131.000", "4807.03", "481", "48",
\* "4x07.038", "0000.000" and ""
RawCoordinates ==
    { <<"4", "8", "0", "7", ".", "0", "3", "8">>,
      <<"0", "1", "1", "3", "1", ".", "0", "0", "0">>,
      <<"4", "8", "0", "7", ".", "0", "3">>,
      <<"4", "8", "1">>,
      <<"4", "8">>,
      <<"4", "x", "0", "7", ".", "0", "3", "8">>,
      <<"0", "0", "0", "0", ".", "0", "0", "0">>,
      <<>> }
Directions == { <<"N">>, <<"S">>, <<"E">>, <<"W">> }

\* convert_to_degrees of the script p
convert_to_degrees_of(p, raw, direction) ==
    IF p = "new" THEN new_convert_to_degrees(raw, direction)
    ELSE convert_to_degrees(raw, direction)

InitConv ==
    /\ prog \in GpsProgs
    /\ pc = "convert"
    /\ exit = ""
    /\ now = 0
    /\ last_data = None
    /\ data_count = 0
    /\ nframes = 0
    /\ it = NoPass
    /\ failed = None
    /\ lastOk = None
    /\ lastSend = None
    /\ run = NoRun
    /\ radio = NoRadio
    /\ DecIdle
    /\ TxIdle

\* a call convert_to_degrees(raw, direction)
ConvertCall ==
    /\ pc = "convert"
    /\ Len(conv) < MaxConvCalls
    /\ \E raw \in RawCoordinates, direction \in Directions :
         conv' = Append(conv, [raw |-> raw, direction |-> direction,
                               out |-> convert_to_degrees_of(prog, raw, direction)])
    /\ UNCHANGED <<rxVars, dpayload, dcalls, trip, txVars>>

NextConv == ConvertCall

SpecConv == InitConv /\ [][NextConv]_vars


\* ------------------------------------------------- properties of the receivers
\* C1 (as claimed): in pi3_lora_receiver.main and LoRaReceiver.on_rx_done, a run of
\* N >= 1 consecutive frames with identical content that decode to a record makes
\* exactly one send_to_server call, whatever the receipt times and send outcomes.
C1_OneSendPerRun ==
    (prog \in {"pi3", "sx"} /\ pc \in {"loop", "interrupted"} /\ run.len >= 1
     /\ run.decoded)
        => run.sends = 1

\* C2: the held reference is None or the record of the latest send_to_server call
\* that returned True, and a pass whose send failed leaves it as it was.
C2_HeldIsLastAcknowledged ==
    /\ last_data = None \/ last_data = lastOk
    /\ (it.sends # <<>> /\ it.sends[Len(it.sends)].result # "True")
           => last_data = it.before

\* C2 witness: a record is held and the send of the last pass failed
C2_HeldAfterFailedSend ==
    /\ last_data # None
    /\ it.sends # <<>>
    /\ it.sends[1].result = "False"
    /\ it.decoded # last_data

\* C3 (as claimed): send_to_server returns True exactly for the 2xx statuses.
C3_SuccessIff2xx ==
    lastSend # None => (lastSend[1].result = "True" <=> Is2xx(lastSend[1].outcome))

\* C4 (as claimed): the loop of pi3_lora_receiver.main, once started, is never
\* ended by a decode error or a send error.
C4_LoopNeverEnded == prog = "pi3" => pc # "ended"

\* C5 (as claimed): no record with latitude 0 and longitude 0 is passed to
\* send_to_server by a receiver loop.
C5_NoZeroZeroSent ==
    \A i \in 1..Len(it.sends) :
        ~ /\ IsNumber(it.sends[i].rec, "latitude")
          /\ IsNumber(it.sends[i].rec, "longitude")
          /\ it.sends[i].rec.latitude.n = 0
          /\ it.sends[i].rec.longitude.n = 0

C10_OnlySourceEndsStartup == pc = "returned" => exit = "source"

\* C10 (amended): pi3_lora_receiver.main, pi3_sx127x_receiver.main and
\* simple_lora_receiver.main return before the loop only when the source cannot
\* be opened, when the startup request to the collector did not return True, or
\* (simple_lora_receiver) when WiFi did not connect; the loop is entered only
\* after a startup request that returned True.
C10_StartupReturns ==
    prog \in {"pi3", "sx", "simple"} =>
        /\ pc = "returned" =>
              \/ exit = "source"
              \/ exit = "server" /\ lastSend # None /\ lastSend[1].result # "True"
              \/ exit = "wifi" /\ prog = "simple"
        /\ pc \in {"loop", "ended", "interrupted"} => lastOk # None

\* C10 witness: main has returned because the startup request failed
C10_ReturnedOnServerFailure ==
    pc = "returned" /\ exit = "server" /\ lastSend[1].outcome = Status(500)
C6_ZeroLatitude(c, numbers) ==
    IF Len(numbers) >= 2
    THEN c.res # None =>
            /\ c.res[1].latitude = Num(PyFloat(numbers[1]).v)
            /\ c.res[1].longitude = Num(PyFloat(numbers[2]).v)
    ELSE c.res = IF c.pre.g.longitude.n # 0 THEN Some(c.pre.g) ELSE None

C7_Untimed(res) == IF res = None THEN None ELSE Some([res[1] EXCEPT !.timestamp = Str(<<>>)])

C8_SentenceAndRepeatRead ==
    /\ Len(fed) = 2
    /\ fed[1] = fed[2]
    /\ StartsWithTag(fed[1], "GPGGA")
    /\ parse_nmea(fed[1]) # None
    /\ uart = <<>>

\* C8 (as claimed): after a valid GGA sentence and an identical repeat, exactly
\* one record has been transmitted, however long the loop goes on.
C8_ExactlyOneForward == (C8_SentenceAndRepeatRead /\ sent # <<>>) => Len(sent) = 1

\* the message text is the one the transmitter formats from the line
C8_Carries(text, line) ==
    IF prog = "gps_tx"
    THEN /\ gpstx_parse_gps_data(line, 0) # None
         /\ text = format_lora_data(gpstx_parse_gps_data(line, 0)[1])
    ELSE /\ parse_nmea(Strip(line)) # None
         /\ text = format_gps_data(parse_nmea(Strip(line))[1])

\* C8 (amended): two transmissions are at least send_interval apart and each
\* carries the position of a line that was read; gps_lora_transmitter.main, with
\* a LoRa device, transmits the held record again whenever send_interval has
\* elapsed, for as long as it runs; simple_lora_transmitter.main transmits at
\* most once per line read and transmits both the sentence and its repeat.
C8_OneTransmissionPerInterval ==
    /\ \A i \in 2..Len(sent) : sent[i].t - sent[i - 1].t >= send_interval
    /\ \A i \in 1..Len(sent) :
           \E k \in 1..(Len(fed) - Len(uart)) : C8_Carries(sent[i].text, fed[k])
    /\ (prog = "gps_tx" /\ lora_device /\ tx_gps_data # None)
           => ((now - MaxDt) \div TicksPerSec) - last_sent_time < send_interval
    /\ prog = "simple_tx" => Len(sent) <= Len(fed) - Len(uart)
    /\ (prog = "simple_tx" /\ C8_SentenceAndRepeatRead) => Len(sent) = 2

\* C8 witness: gps_lora_transmitter.main has read the sentence and its repeat and
\* has transmitted the same message a second time
C8_HeldRecordTransmittedAgain ==
    /\ prog = "gps_tx"
    /\ C8_SentenceAndRepeatRead
    /\ Len(sent) >= 2
    /\ sent[1].text = sent[2].text


C12_ReadSoFar == SubSeq(Text(fed), 1, Len(Text(fed)) - Len(Text(uart)))
C12_Processed == [i \in 1..Len(lines) |-> lines[i].raw]

\* C12 (as claimed): after every read, however the stream was cut into reads, the
\* lines processed are the parts of the text read so far that end in a line
\* break, in order, and the buffer is the unterminated rest, without a line break.
C12_LinesAreSplitOfStream ==
    prog = "new" => C12_Processed \o <<buffer>> = Split(C12_ReadSoFar, "\n")

\* C12 (amended): the lines processed, followed by the parts of the buffer, are
\* the parts of the text read so far, so no character is lost or processed twice
\* and only terminated lines are processed; the buffer holds a line break only
\* after a pass in which an LCD write raised, and those lines are processed by a
\* later pass that reads.
C12_LinesArePrefixOfSplit ==
    prog = "new" =>
        /\ C12_Processed \o Split(buffer, "\n") = Split(C12_ReadSoFar, "\n")
        /\ Contains(buffer, "\n") => (lcd # <<>> /\ ~lcd[Len(lcd)].done)

\* C12 witness: a line with a position has been processed, the start of the next
\* line is held in the buffer and the rest of the stream has not been read yet
C12_TailHeld ==
    /\ prog = "new"
    /\ Len(lines) >= 1
    /\ lines[Len(lines)].res # None
    /\ buffer # <<>>
    /\ ~Contains(buffer, "\n")
    /\ uart # <<>>

\* a line that starts with "$GPGGA" or "$GPRMC", and a $GPGGA line whose
\* fix-quality field is "0"
C16_Recognized(line) == StartsWithTag(line, "GPGGA") \/ StartsWithTag(line, "GPRMC")
C16_GgaNoFix(parts) == parts[1] = <<"$", "GPGGA">> /\ Len(parts) > 6 /\ parts[7] = <<"0">>

\* C16 (as claimed): parse_nmea, gps_lora_transmitter.parse_gps_data and the loop
\* of NEW.py make no position of a line that does not start with a recognized
\* sentence marker, nor of a $GPGGA line whose fix-quality field is "0".
C16_NoPositionWithoutFix ==
    \A i \in 1..Len(lines) :
        (~C16_Recognized(Strip(lines[i].raw))
         \/ C16_GgaNoFix(Split(Strip(lines[i].raw), ",")))
            => lines[i].res = None

\* the record made of an active $GPRMC sentence has the coordinates converted
\* from fields 3-6
C17_FromRmcFields(parts, res) ==
    (IsPosition(convert_to_degrees(parts[4], parts[5]))
     /\ IsPosition(convert_to_degrees(parts[6], parts[7])))
        => /\ res # None
           /\ res[1].latitude = Num(convert_to_degrees(parts[4], parts[5]).v)
           /\ res[1].longitude = Num(convert_to_degrees(parts[6], parts[7]).v)
C17_Rmc(parts, res) ==
    (parts[1] = <<"$", "GPRMC">> /\ Len(parts) >= 7) =>
        IF parts[3] # <<"A">> THEN res = None ELSE C17_FromRmcFields(parts, res)

\* C17 (as claimed): of a $GPRMC sentence whose status is not "A", parse_nmea and
\* gps_lora_transmitter.parse_gps_data make no record, and of an active one with
\* well-formed coordinates a record with the coordinates of fields 3-6.
C17_RmcRecordFromRmcFields ==
    prog \in TxProgs =>
        \A i \in 1..Len(lines) : C17_Rmc(Split(Strip(lines[i].raw), ","), lines[i].res)

\* a $GPGGA sentence with a fix of which exactly one coordinate converts to 0
C18_OneZero(parts) ==
    /\ parts[1] = <<"$", "GPGGA">>
    /\ Len(parts) > 6
    /\ parts[7] # <<"0">>
    /\ convert_to_degrees(parts[3], parts[4]).st = "val"
    /\ convert_to_degrees(parts[5], parts[6]).st = "val"
    /\ (convert_to_degrees(parts[3], parts[4]).v = 0)
           # (convert_to_degrees(parts[5], parts[6]).v = 0)

\* C18 (as claimed): of a sentence with a valid fix in which exactly one of
\* latitude and longitude converts to 0, parse_nmea and
\* gps_lora_transmitter.parse_gps_data make a record.
C18_OneZeroCoordinateIsAPosition ==
    prog \in TxProgs =>
        \A i \in 1..Len(lines) :
            C18_OneZero(Split(Strip(lines[i].raw), ",")) => lines[i].res # None

\* a recognized sentence with fewer than six fields, or one whose latitude
\* field is not a number
C19_Malformed(parts) ==
    /\ parts[1] \in {<<"$", "GPGGA">>, <<"$", "GPRMC">>}
    /\ \/ Len(parts) < 6
       \/ parts[1] = <<"$", "GPGGA">> /\ ~PyFloat(parts[3]).ok

C13_ThreeDigitDegrees ==
    \A i \in 1..Len(conv) :
        (conv[i].raw = <<"0", "1", "1", "3", "1", ".", "0", "0", "0">>
         /\ conv[i].direction = <<"W">>)
            => /\ conv[i].out.st = "val"
               /\ Abs(conv[i].out.v + (11 * Scale + DivBy(31 * Scale, 60))) <= 1

\* raw is two digits followed by a number: the degrees and the minutes
C14_DegreesMinutes(raw) ==
    /\ Len(raw) > 2
    /\ IsDigit(raw[1])
    /\ IsDigit(raw[2])
    /\ PyFloat(SubSeq(raw, 3, Len(raw))).ok
C14_Expected(raw, direction) ==
    IF direction \in {<<"S">>, <<"W">>}
    THEN 0 - (IntOf(SubSeq(raw, 1, 2)) * Scale + DivBy(PyFloat(SubSeq(raw, 3, Len(raw))).v, 60))
    ELSE IntOf(SubSeq(raw, 1, 2)) * Scale + DivBy(PyFloat(SubSeq(raw, 3, Len(raw))).v, 60)

\* C14 (as claimed): for every raw made of two digits of degrees and then the
\* minutes, convert_to_degrees returns degrees + minutes / 60, negated exactly
\* for S and W, and two calls with the same arguments return the same.
C14_DegreesPlusMinutes ==
    /\ \A i \in 1..Len(conv) :
           C14_DegreesMinutes(conv[i].raw)
               => conv[i].out = Degrees("val", C14_Expected(conv[i].raw, conv[i].direction))
    /\ \A i, j \in 1..Len(conv) :
           (conv[i].raw = conv[j].raw /\ conv[i].direction = conv[j].direction)
               => conv[i].out = conv[j].out

\* C15 (as claimed): convert_to_degrees gives no number exactly when raw has
\* fewer than 4 characters or is not two digits followed by a number.
C15_FailsExactlyWhenMalformed ==
    \A i \in 1..Len(conv) :
        (conv[i].out.st # "val")
            <=> (CharLen(conv[i].raw) < 4 \/ ~C14_DegreesMinutes(conv[i].raw))

\* ------------------------------- properties of the delimited-fields strategy
\* the fields of the payload are numbers: two (lat, lng) or four (id, lat, lng,
\* strength)
C20_TwoFields(parts) ==
    Len(parts) = 2 /\ PyFloat(parts[1]).ok /\ PyFloat(parts[2]).ok
C20_FourFields(parts) ==
    Len(parts) = 4 /\ PyFloat(parts[2]).ok /\ PyFloat(parts[3]).ok /\ PyInt(parts[4]).ok
C20_Record(id, lat, lng, strength, t) ==
    Some([busId |-> Str(id), latitude |-> Num(lat.v), longitude |-> Num(lng.v),
          signalStrength |-> strength, timestamp |-> strftime(t)])

TripLatitudes ==
    { <<"0", "2", "3", "0", ".", "0", "0", "0">>,
      <<"4", "8", "0", "7", ".", "0", "3", "8">>,
      <<"0", "0", "0", "0", ".", "6", "0", "0">> }
TripLongitudes ==
    { <<"1", "0", "1", "3", "0", ".", "0", "0", "0">>,
      <<"0", "0", "0", "3", "0", ".", "0", "0", "0">> }

\* "$GPGGA,1,<lat>,<N|S>,<lon>,<E|W>,1" and "$GPRMC,1,A,<lat>,<N|S>,<lon>,<E|W>,6.7"
TripGga(lat, ns, lon, ew) ==
    <<"$", "GPGGA", ",", "1", ",">> \o lat \o <<",", ns, ",">> \o lon
        \o <<",", ew, ",", "1">>
TripRmc(lat, ns, lon, ew) ==
    <<"$", "GPRMC", ",", "1", ",", "A", ",">> \o lat \o <<",", ns, ",">> \o lon
        \o <<",", ew, ",", "6", ".", "7">>
TripSentences ==
    { TripGga(lat, ns, lon, ew) : lat \in TripLatitudes, ns \in {"N", "S"},
                                  lon \in TripLongitudes, ew \in {"E", "W"} }
    \cup { TripRmc(lat, ns, lon, ew) : lat \in TripLatitudes, ns \in {"N", "S"},
                                       lon \in TripLongitudes, ew \in {"E", "W"} }

TripReceivers == {"sx", "pi3"}

\* a transmitter with a LoRa device and one sentence waiting in its GPS UART,
\* at a time when a transmission is due
InitTrip ==
    /\ prog \in TxProgs
    /\ pc = "tx_loop"
    /\ exit = ""
    /\ now = send_interval * TicksPerSec
    /\ last_data = None
    /\ data_count = 0
    /\ nframes = 0
    /\ it = NoPass
    /\ failed = None
    /\ lastOk = None
    /\ lastSend = None
    /\ run = NoRun
    /\ radio = NoRadio
    /\ DecIdle
    /\ \E line \in TripSentences : uart = <<line>> /\ fed = <<line>>
    /\ tx_gps_data = None
    /\ last_sent_time = 0
    /\ sent = <<>>
    /\ lora_device = TRUE
    /\ lines = <<>>
    /\ buffer = <<>>
    /\ last_lcd_update = 0
    /\ lcd = <<>>

\* what a receiver's decoder makes of the payload at the clock reading t
trip_decode(rx, payload, t) ==
    IF rx = "sx" THEN sx_parse_gps_data(payload, t) ELSE pi3_parse_gps_data(payload, t)

\* a receiver gets the message transmitted last and decodes it
Receive ==
    /\ pc = "tx_loop"
    /\ sent # <<>>
    /\ \E rx \in TripReceivers :
         /\ \A i \in 1..Len(trip) : trip[i].rx # rx
         /\ trip' = Append(trip, [rx |-> rx, payload |-> sent[Len(sent)].text,
                                  res |-> trip_decode(rx, sent[Len(sent)].text, now)])
    /\ UNCHANGED <<rxVars, dpayload, dcalls, conv, txVars>>

NextTrip == GpsTxPass \/ SimpleTxPass \/ Receive

SpecTrip == InitTrip /\ [][NextTrip]_vars

\* ---------------------------------------------------------------- claim C21
\* the text from the first "{" to the last "}" of the stripped payload, and
\* whether it is a well-formed object whose latitude and longitude (and signal
\* strength, when it has one) convert
C21_Object(ds) == SubSeq(ds, Find(ds, "{"), RFind(ds, "}"))
C21_Converts(d) ==
    /\ HasKey(d, "latitude") /\ FloatOfValue(d["latitude"]).ok
    /\ HasKey(d, "longitude") /\ FloatOfValue(d["longitude"]).ok
    /\ HasKey(d, "signalStrength") => IntOfValue(d["signalStrength"]).ok
C21_WellFormed(ds) ==
    /\ Contains(ds, "{") /\ Contains(ds, "}")
    /\ JsonLoads(C21_Object(ds)).ok
    /\ C21_Converts(JsonLoads(C21_Object(ds)).d)
C21_IsObjectRecord(res, d) ==
    /\ res # None
    /\ res[1].latitude = Num(FloatOfValue(d["latitude"]).v)
    /\ res[1].longitude = Num(FloatOfValue(d["longitude"]).v)
\* what the numeric scan alone makes of the payload: the first two decimal
\* numbers as the coordinates of the default record, or nothing
C21_ScanOnly(ds, res, t) ==
    IF Len(FindFloats(ds, 1)) >= 2
    THEN /\ res # None
         /\ res[1].latitude = Num(PyFloat(FindFloats(ds, 1)[1]).v)
         /\ res[1].longitude = Num(PyFloat(FindFloats(ds, 1)[2]).v)
    ELSE res = None
C21_Malformed(ds) ==
    Contains(ds, "{") /\ Contains(ds, "}") /\ ~JsonLoads(C21_Object(ds)).ok

C22_CsvProduced(parts) ==
    IF Len(parts) = 2 THEN PyFloat(parts[1]).ok /\ PyFloat(parts[2]).ok
    ELSE /\ Len(parts) >= 3
         /\ PyFloat(parts[2]).ok /\ PyFloat(parts[3]).ok
         /\ Len(parts) > 3 => PyInt(parts[4]).ok
C22_JsonProduced(j) ==
    /\ j.ok
    /\ HasKey(j.d, "latitude") => FloatOfValue(j.d["latitude"]).ok
    /\ HasKey(j.d, "longitude") => FloatOfValue(j.d["longitude"]).ok
    /\ HasKey(j.d, "signalStrength") => IntOfValue(j.d["signalStrength"]).ok
C22_Produced(ds) ==
    \/ Contains(ds, ",") /\ ~Contains(ds, "{") /\ C22_CsvProduced(Split(ds, ","))
    \/ /\ Contains(ds, "{") /\ Contains(ds, "}")
       /\ C22_JsonProduced(JsonLoads(SubSeq(ds, Find(ds, "{"), RFind(ds, "}"))))
    \/ Len(FindFloats(ds, 1)) >= 2
C22_BothZero(g) == g.latitude.n = 0 /\ g.longitude.n = 0

\* C22: LoRaReceiver.parse_gps_data returns None exactly when no strategy
\* produced coordinates or the resulting latitude and longitude are both 0, and a
\* record in every other case; no call raises.
C22_NoneIffNothingOrZeroZero ==
    \A i \in 1..Len(dcalls) :
        /\ dcalls[i].res = None <=>
               (\/ ~C22_Produced(Strip(dpayload))
                \/ C22_BothZero(sx_attempts(Strip(dpayload), dcalls[i].t).g))
        /\ dcalls[i].res # None => DOMAIN dcalls[i].res[1] = DOMAIN sx_default(0)

\* C22 witness: "garbage", which no strategy makes coordinates of, has been
\* decoded to None
C22_GarbageRejected ==
    /\ dpayload = <<"garbage">>
    /\ Len(dcalls) >= 1
    /\ ~C22_Produced(Strip(dpayload))
    /\ dcalls[1].res = None

\* ---------------------------------------------------------------- claim C23
\* the payload carries no signal-strength field (the fourth delimited field; the
\* fifth in pi3_lora_receiver, whose fourth is the speed), or no identifier
C23_StrengthFieldAt(p) == IF p = "pi3" THEN 5 ELSE 4
C23_NoStrength(p, ds) ==
    IF Contains(ds, "{")
    THEN ~(JsonLoads(ds).ok /\ HasKey(JsonLoads(ds).d, "signalStrength"))
    ELSE Len(Split(ds, ",")) < C23_StrengthFieldAt(p)
C23_NoIdentifier(ds) ==
    IF Contains(ds, "{")
    THEN ~(JsonLoads(ds).ok /\ HasKey(JsonLoads(ds).d, "busId"))
    ELSE Split(ds, ",")[1] = <<>>

\* C23 (as claimed): the record a receiver decodes of a payload without an
\* identifier has the busId 'BUS001', and the record decoded of a payload without
\* a signal-strength field has a signalStrength that is not 0.
C23_DefaultsFilledIn ==
    (it.frame # None /\ it.decoded # None) =>
        /\ C23_NoIdentifier(Strip(it.frame[1])) =>
               /\ HasKey(it.decoded[1], "busId")
               /\ it.decoded[1]["busId"] = Str(BUS001)
        /\ C23_NoStrength(prog, Strip(it.frame[1])) =>
               /\ HasKey(it.decoded[1], "signalStrength")
               /\ it.decoded[1]["signalStrength"].n # 0

\* ---------------------------------------------------------------- claim C24
\* the delimited-fields strategy was attempted on the payload and aborted on a
\* field that does not convert
C24_CsvAborted(ds) ==
    /\ Contains(ds, ",") /\ ~Contains(ds, "{")
    /\ Len(Split(ds, ",")) >= 2
    /\ ~C22_CsvProduced(Split(ds, ","))

\* C24 (as claimed): when the delimited-fields strategy of
\* LoRaReceiver.parse_gps_data aborted and the numeric scan made the record, the
\* record is the default one (busId 'BUS001', signalStrength 85) with the first
\* two decimal numbers of the payload as its coordinates.
C24_AbortedStrategyLeavesNoTrace ==
    \A i \in 1..Len(dcalls) :
        (C24_CsvAborted(Strip(dpayload)) /\ dcalls[i].res # None) =>
            dcalls[i].res[1] =
                [sx_default(dcalls[i].t) EXCEPT
                    !.latitude = Num(PyFloat(FindFloats(Strip(dpayload), 1)[1]).v),
                    !.longitude = Num(PyFloat(FindFloats(Strip(dpayload), 1)[2]).v)]

\* ---------------------------------------------------------------- claim C25
\* the payload is two bare numbers separated by one comma; the payload starts
\* with "{", contains a comma and is a well-formed JSON document
C25_TwoNumbers(ds) ==
    /\ Count(ds, ",") = 1
    /\ PyFloat(Split(ds, ",")[1]).ok /\ PyFloat(Split(ds, ",")[2]).ok
C25_JsonWithCommas(ds) ==
    /\ ds # <<>> /\ Head(ds) = "{"
    /\ Contains(ds, ",")
    /\ JsonLoads(ds).ok

\* C25 (as claimed): parse_gps_data of pi3_lora_receiver and simple_lora_receiver
\* decodes a payload of two bare comma-separated numbers to a record with busId
\* 'BUS001' and those coordinates, and a payload that starts with "{" and
\* contains commas to the JSON object it holds.
C25_ThirdFormatReachable ==
    (prog \in {"pi3", "simple"} /\ it.frame # None) =>
        /\ C25_TwoNumbers(Strip(it.frame[1])) =>
               /\ it.decoded # None
               /\ it.decoded[1]["busId"] = Str(BUS001)
               /\ it.decoded[1]["latitude"] =
                      Num(PyFloat(Split(Strip(it.frame[1]), ",")[1]).v)
               /\ it.decoded[1]["longitude"] =
                      Num(PyFloat(Split(Strip(it.frame[1]), ",")[2]).v)
        /\ C25_JsonWithCommas(Strip(it.frame[1])) =>
               /\ it.decoded # None
               /\ \A k \in DOMAIN JsonLoads(Strip(it.frame[1])).d :
                      /\ HasKey(it.decoded[1], k)
                      /\ it.decoded[1][k] = JsonLoads(Strip(it.frame[1])).d[k]

\* ---------------------------------------------------------------- claim C26
\* the record the transmitter made of its sentence
C26_Source == lines[1].res[1]
\* the decoded record has the identifier, coordinates and signal strength that
\* were transmitted
C26_SameRecord(res, src) ==
    /\ res # None
    /\ res[1]["busId"] = Str(BUS001)
    /\ res[1]["latitude"] = src.latitude
    /\ res[1]["longitude"] = src.longitude
    /\ res[1]["signalStrength"].n = 85 * Scale
\* the speed of a message of five fields, as written in it
C26_SameSpeed(res, parts) ==
    Len(parts) = 5 =>
        /\ HasKey(res[1], "speed")
        /\ res[1]["speed"] = Num(PyFloat(parts[4]).v)

\* C26 (as claimed): every message made by format_lora_data or format_gps_data of
\* a record with a position is decoded by LoRaReceiver.parse_gps_data and by
\* pi3_lora_receiver.parse_gps_data to a record with the same busId, latitude
\* and longitude, signalStrength 85 and, when the message has a speed field,
\* that speed.
C26_RoundTrip ==
    \A i \in 1..Len(trip) :
        /\ C26_SameRecord(trip[i].res, C26_Source)
        /\ C26_SameSpeed(trip[i].res, Split(trip[i].payload, ","))

====
